---- MODULE Spec2Model ----
(***************************************************************************)
(* Model of fsm-governance-engine-lib: the fixed transition tables of      *)
(* src/src/fsm.rs (IdeaStatus, GrantStatus), the audit trail of            *)
(* src/src/audit.rs and the declarative definitions of                     *)
(* src/src/definition.rs.                                                  *)
(*                                                                         *)
(* The specifications share the module's variables:                        *)
(*   SpecFsm   - calls of next_states / can_transition_to /                *)
(*               validate_transition on every state and target of both     *)
(*               tables;                                                   *)
(*   SpecAudit - an AuditTrail driven by record / verify / entries calls;  *)
(*   SpecAuditChain - the same trail, recording the entries of the         *)
(*               end-to-end scenarios;                                     *)
(*   SpecDefStructure, SpecDefGraph, SpecDefInvariants - validate,         *)
(*               validate_structure and validate_invariants                *)
(*               (src/src/definition.rs) called on three families of       *)
(*               FsmDefinition values;                                     *)
(*   SpecDefList, SpecDefFields, SpecDefInitial - the same calls on        *)
(*               definitions with invariant lists, with the optional       *)
(*               fields and the JSON round trip, and with defaults;        *)
(*   SpecGrant - approve / activate / disburse on a Grant                  *)
(*               (src/src/grant/lifecycle.rs);                             *)
(*   SpecIdea  - an idea moved along the IdeaStatus table;                 *)
(*   SpecRun   - validate and verify one loop iteration at a time;         *)
(*   SpecCore  - the Result-returning operations together;                 *)
(*   SpecGrantWalk - a grant status moved along the GrantStatus table;     *)
(*   SpecAuditClosing - the trail recording the end of a grant's life;     *)
(*   SpecDefUndeclared - invariants naming undeclared labels;              *)
(*   SpecProposal - the lifecycle methods of a Proposal                    *)
(*               (src/src/proposal/lifecycle.rs).                          *)
(* Each specification keeps the other components' variables idle.          *)
(***************************************************************************)
EXTENDS Integers, Sequences, FiniteSets, TLC

VARIABLES
    ideaStatus,   \* fsm: the IdeaStatus value the calls are made on (self)
    grantStatus,  \* fsm: the GrantStatus value the calls are made on (self)
    call,         \* fsm: the last call made and what it returned
    entries,      \* audit: AuditTrail.entries (Vec<AuditEntry>)
    op,           \* audit: the last AuditTrail method called
    arg,          \* audit: the entry passed to the last record call
    ret,          \* audit: the Result the last record / verify call returned
    view,         \* audit: the slice the last entries() call returned
    prev,         \* audit (history): AuditTrail.entries before the last call
    accepted,     \* audit (history): the entries whose record returned Ok, in call order
    definition,   \* definition: the FsmDefinition under validation
    outcome,      \* definition: the last validation call and what it returned
    grant,        \* grant: the Grant the lifecycle methods are called on
    run,          \* steps: a validate or verify call in progress, one loop iteration at a time
    proposal      \* proposal: the Proposal the lifecycle methods are called on

vars ==
    <<ideaStatus, grantStatus, call, entries, op, arg, ret, view, prev, accepted,
      definition, outcome, grant, run, proposal>>

---------------------------------------------------------------------------
(* Bounds and input sets                                                   *)

\* longest trail the audit specification builds
MaxTrail == 3

\* grant states the recorded entries are drawn from
AuditStatuses == {"Pending", "Approved", "Active"}

\* longest state list of the definitions whose structure is validated
MaxStates == 2

\* longest transition list of the definitions whose structure or single
\* invariant is validated
MaxTransitions == 2

\* longest transition list of the definitions whose cycles are searched
MaxEdges == 3

\* longest state list / transition list of an invariant
MaxRefs == 2

\* longest invariant list of the definitions whose invariant list is validated
MaxInvariants == 3

\* the largest amount: stands for u64::MAX, where checked_add overflows
U64Max == 3

\* the largest time: stands for i64::MAX, where the sums of times overflow
I64Max == 3

\* the largest vote count a proposal is given
MaxVotes == 1

\* the default voting duration, 7 * 24 * 3600 seconds: times are counted in
\* units of half that duration
VotingDuration == 2

---------------------------------------------------------------------------
(* Enumerations                                                            *)

IdeaStates ==
    {"Draft", "UnderReview", "Approved", "Rejected", "InProgress", "Paused",
     "Completed", "Executed", "Commercialization", "Archived", "Resubmitted",
     "Voting", "Expired"}

GrantStates ==
    {"Pending", "Approved", "Active", "Suspended", "Completed", "Cancelled",
     "Rejected", "Expired", "Archived"}

Ok == "Ok"
InvalidStateTransition == "InvalidStateTransition"

InvalidInput == "InvalidInput"

\* slice::contains: a linear scan of the slice
Contains(slice, x) == \E i \in 1..Len(slice) : slice[i] = x

---------------------------------------------------------------------------
(* src/src/fsm.rs: impl IdeaStatus                                         *)

\* the Archived row gaining Draft
IdeaStatus_next_states_m1(self) ==
    CASE self = "Draft"             -> <<"UnderReview", "Voting">>
      [] self = "UnderReview"       -> <<"Approved", "Rejected", "Voting">>
      [] self = "Voting"            -> <<"Approved", "Rejected">>
      [] self = "Approved"          -> <<"InProgress", "Paused">>
      [] self = "Rejected"          -> <<"Archived", "Resubmitted">>
      [] self = "InProgress"        -> <<"Completed", "Paused", "Expired">>
      [] self = "Paused"            -> <<"InProgress", "Archived">>
      [] self = "Completed"         -> <<"Executed", "Archived">>
      [] self = "Executed"          -> <<"Commercialization", "Archived">>
      [] self = "Commercialization" -> <<"Archived">>
      [] self = "Archived"          -> <<"Resubmitted", "Draft">>
      [] self = "Resubmitted"       -> <<"UnderReview", "Voting">>
      [] self = "Expired"           -> <<"Archived">>

\* a rejected idea allowed back to Draft
IdeaStatus_next_states_m2(self) ==
    CASE self = "Draft"             -> <<"UnderReview", "Voting">>
      [] self = "UnderReview"       -> <<"Approved", "Rejected", "Voting">>
      [] self = "Voting"            -> <<"Approved", "Rejected">>
      [] self = "Approved"          -> <<"InProgress", "Paused">>
      [] self = "Rejected"          -> <<"Archived", "Resubmitted", "Draft">>
      [] self = "InProgress"        -> <<"Completed", "Paused", "Expired">>
      [] self = "Paused"            -> <<"InProgress", "Archived">>
      [] self = "Completed"         -> <<"Executed", "Archived">>
      [] self = "Executed"          -> <<"Commercialization", "Archived">>
      [] self = "Commercialization" -> <<"Archived">>
      [] self = "Archived"          -> <<"Resubmitted">>
      [] self = "Resubmitted"       -> <<"UnderReview", "Voting">>
      [] self = "Expired"           -> <<"Archived">>

IdeaStatus_next_states(self) ==
    CASE self = "Draft"             -> <<"UnderReview", "Voting">>
      [] self = "UnderReview"       -> <<"Approved", "Rejected", "Voting">>
      [] self = "Voting"            -> <<"Approved", "Rejected">>
      [] self = "Approved"          -> <<"InProgress", "Paused">>
      [] self = "Rejected"          -> <<"Archived", "Resubmitted">>
      [] self = "InProgress"        -> <<"Completed", "Paused", "Expired">>
      [] self = "Paused"            -> <<"InProgress", "Archived">>
      [] self = "Completed"         -> <<"Executed", "Archived">>
      [] self = "Executed"          -> <<"Commercialization", "Archived">>
      [] self = "Commercialization" -> <<"Archived">>
      [] self = "Archived"          -> <<"Resubmitted">>
      [] self = "Resubmitted"       -> <<"UnderReview", "Voting">>
      [] self = "Expired"           -> <<"Archived">>

\* the same-state early return left out
IdeaStatus_can_transition_to_m1(self, target) ==
    Contains(IdeaStatus_next_states(self), target)

IdeaStatus_can_transition_to(self, target) ==
    IF self = target
    THEN TRUE
    ELSE Contains(IdeaStatus_next_states(self), target)

IdeaStatus_validate_transition(self, target) ==
    IF ~IdeaStatus_can_transition_to(self, target)
    THEN InvalidStateTransition
    ELSE Ok

---------------------------------------------------------------------------
(* src/src/fsm.rs: impl GrantStatus                                        *)

\* the Approved row losing Suspended
GrantStatus_next_states_m1(self) ==
    CASE self = "Pending"   -> <<"Approved", "Rejected">>
      [] self = "Approved"  -> <<"Active">>
      [] self = "Active"    -> <<"Completed", "Cancelled", "Suspended", "Expired">>
      [] self = "Suspended" -> <<"Active", "Cancelled">>
      [] self = "Completed" -> <<"Archived">>
      [] self = "Cancelled" -> <<"Archived">>
      [] self = "Rejected"  -> <<"Archived">>
      [] self = "Expired"   -> <<"Archived">>
      [] self = "Archived"  -> <<>>

\* Archived reopening to Pending
GrantStatus_next_states_m2(self) ==
    CASE self = "Pending"   -> <<"Approved", "Rejected">>
      [] self = "Approved"  -> <<"Active", "Suspended">>
      [] self = "Active"    -> <<"Completed", "Cancelled", "Suspended", "Expired">>
      [] self = "Suspended" -> <<"Active", "Cancelled">>
      [] self = "Completed" -> <<"Archived">>
      [] self = "Cancelled" -> <<"Archived">>
      [] self = "Rejected"  -> <<"Archived">>
      [] self = "Expired"   -> <<"Archived">>
      [] self = "Archived"  -> <<"Pending">>

\* the Expired row losing Archived
GrantStatus_next_states_m3(self) ==
    CASE self = "Pending"   -> <<"Approved", "Rejected">>
      [] self = "Approved"  -> <<"Active", "Suspended">>
      [] self = "Active"    -> <<"Completed", "Cancelled", "Suspended", "Expired">>
      [] self = "Suspended" -> <<"Active", "Cancelled">>
      [] self = "Completed" -> <<"Archived">>
      [] self = "Cancelled" -> <<"Archived">>
      [] self = "Rejected"  -> <<"Archived">>
      [] self = "Expired"   -> <<>>
      [] self = "Archived"  -> <<>>

GrantStatus_next_states(self) ==
    CASE self = "Pending"   -> <<"Approved", "Rejected">>
      [] self = "Approved"  -> <<"Active", "Suspended">>
      [] self = "Active"    -> <<"Completed", "Cancelled", "Suspended", "Expired">>
      [] self = "Suspended" -> <<"Active", "Cancelled">>
      [] self = "Completed" -> <<"Archived">>
      [] self = "Cancelled" -> <<"Archived">>
      [] self = "Rejected"  -> <<"Archived">>
      [] self = "Expired"   -> <<"Archived">>
      [] self = "Archived"  -> <<>>

\* the same-state early return left out
GrantStatus_can_transition_to_m1(self, target) ==
    Contains(GrantStatus_next_states(self), target)

GrantStatus_can_transition_to(self, target) ==
    IF self = target
    THEN TRUE
    ELSE Contains(GrantStatus_next_states(self), target)

GrantStatus_validate_transition(self, target) ==
    IF ~GrantStatus_can_transition_to(self, target)
    THEN InvalidStateTransition
    ELSE Ok

---------------------------------------------------------------------------
(* src/src/audit.rs: AuditEntry, AuditTrail                                *)

\* the actor key [b; 32] is stood for by its fill byte b
AuditEntry_new(grant_id, actor, from_state, to_state, action, timestamp, metadata) ==
    [grant_id   |-> grant_id,
     actor      |-> actor,
     from_state |-> from_state,
     to_state   |-> to_state,
     action     |-> action,
     timestamp  |-> timestamp,
     metadata   |-> metadata]

\* the two entries of the tests of audit.rs, the states left open:
\* sample_entry (grant 1) and the second entry of trail_contains_multiple_grants
SampleEntry(from_state, to_state) ==
    AuditEntry_new(1, 0, from_state, to_state, "test", 1000, "metadata")

SecondGrantEntry(from_state, to_state) ==
    AuditEntry_new(2, 1, from_state, to_state, "approve", 2000, "None")

\* the record calls that are accepted: every permitted pair of the drawn grant
\* states, for both grants
PermittedInputs ==
    LET pairs == {q \in AuditStatuses \X AuditStatuses :
                     GrantStatus_can_transition_to(q[1], q[2])}
    IN  {SampleEntry(p[1], p[2]) : p \in pairs}
            \cup {SecondGrantEntry(p[1], p[2]) : p \in pairs}

\* the record calls that are rejected: every other pair of the drawn grant
\* states (one grant: a rejected entry is dropped)
RejectedInputs ==
    {SampleEntry(p[1], p[2]) :
        p \in {q \in AuditStatuses \X AuditStatuses :
                  ~GrantStatus_can_transition_to(q[1], q[2])}}

AuditInputs == PermittedInputs \cup RejectedInputs

NoEntry == AuditEntry_new(0, 0, "none", "none", "none", 0, "none")

AuditTrail_new == <<>>

\* the entry replacing the trail instead of being pushed onto it
AuditTrail_record_m1(self, entry) ==
    IF GrantStatus_validate_transition(entry.from_state, entry.to_state) # Ok
    THEN [entries |-> self, ret |-> InvalidStateTransition]
    ELSE [entries |-> <<entry>>, ret |-> Ok]

\* the entry pushed before the transition is validated
AuditTrail_record_m2(self, entry) ==
    IF GrantStatus_validate_transition(entry.from_state, entry.to_state) # Ok
    THEN [entries |-> Append(self, entry), ret |-> InvalidStateTransition]
    ELSE [entries |-> Append(self, entry), ret |-> Ok]

\* the entry inserted at the front of the trail
AuditTrail_record_m3(self, entry) ==
    IF GrantStatus_validate_transition(entry.from_state, entry.to_state) # Ok
    THEN [entries |-> self, ret |-> InvalidStateTransition]
    ELSE [entries |-> <<entry>> \o self, ret |-> Ok]

\* the validation left out
AuditTrail_record_m4(self, entry) ==
    [entries |-> Append(self, entry), ret |-> Ok]

\* the entry also refused when it does not continue the last entry of its grant
AuditTrail_record_m5(self, entry) ==
    IF GrantStatus_validate_transition(entry.from_state, entry.to_state) # Ok
    THEN [entries |-> self, ret |-> InvalidStateTransition]
    ELSE IF /\ self # <<>>
            /\ self[Len(self)].grant_id = entry.grant_id
            /\ self[Len(self)].to_state # entry.from_state
         THEN [entries |-> self, ret |-> InvalidStateTransition]
         ELSE [entries |-> Append(self, entry), ret |-> Ok]

\* the error of validate_transition passed on by ? through a conversion to
\* InvalidInput, instead of map_err to InvalidStateTransition
AuditTrail_record_m6(self, entry) ==
    IF GrantStatus_validate_transition(entry.from_state, entry.to_state) # Ok
    THEN [entries |-> self, ret |-> InvalidInput]
    ELSE [entries |-> Append(self, entry), ret |-> Ok]

\* record(&mut self, entry): the trail after the call and the Result returned
AuditTrail_record(self, entry) ==
    IF GrantStatus_validate_transition(entry.from_state, entry.to_state) # Ok
    THEN [entries |-> self, ret |-> InvalidStateTransition]
    ELSE [entries |-> Append(self, entry), ret |-> Ok]

\* the loop of verify over self.entries.windows(2), from window i on
RECURSIVE VerifyWindows(_, _)
VerifyWindows(self, i) ==
    IF i + 1 > Len(self)
    THEN Ok
    ELSE IF self[i].grant_id # self[i + 1].grant_id
         THEN VerifyWindows(self, i + 1)
         ELSE IF self[i].to_state # self[i + 1].from_state
              THEN InvalidStateTransition
              ELSE VerifyWindows(self, i + 1)

\* the scan stopping at the first window of two different grants
RECURSIVE VerifyWindows_m1(_, _)
VerifyWindows_m1(self, i) ==
    IF i + 1 > Len(self)
    THEN Ok
    ELSE IF self[i].grant_id # self[i + 1].grant_id
         THEN Ok
         ELSE IF self[i].to_state # self[i + 1].from_state
              THEN InvalidStateTransition
              ELSE VerifyWindows_m1(self, i + 1)

AuditTrail_verify_m1(self) == VerifyWindows_m1(self, 1)

\* every entry compared with the latest earlier entry of its grant, adjacent
\* or not
AuditTrail_verify_m2(self) ==
    IF \E j \in 1..Len(self) : \E i \in 1..(j - 1) :
           /\ self[i].grant_id = self[j].grant_id
           /\ \A k \in (i + 1)..(j - 1) : self[k].grant_id # self[j].grant_id
           /\ self[i].to_state # self[j].from_state
    THEN InvalidStateTransition
    ELSE Ok

\* only the last window compared
AuditTrail_verify_m3(self) ==
    IF Len(self) < 2
    THEN Ok
    ELSE IF /\ self[Len(self) - 1].grant_id = self[Len(self)].grant_id
            /\ self[Len(self) - 1].to_state # self[Len(self)].from_state
         THEN InvalidStateTransition
         ELSE Ok

AuditTrail_verify(self) == VerifyWindows(self, 1)

AuditTrail_entries(self) == self

---------------------------------------------------------------------------
(* src/src/definition.rs: FsmDefinition                                    *)

\* A String is the sequence of its characters; an Option<T> is the sequence
\* <<>> (None) or <<x>> (Some(x)).
Whitespace == {" "}

\* str::trim: leading and trailing whitespace removed
RECURSIVE Trim(_)
Trim(str) ==
    IF str = <<>>
    THEN str
    ELSE IF Head(str) \in Whitespace
         THEN Trim(Tail(str))
         ELSE IF str[Len(str)] \in Whitespace
              THEN Trim(SubSeq(str, 1, Len(str) - 1))
              ELSE str

FsmTransition(from, to, action) ==
    [from |-> from, to |-> to, action |-> action, guard |-> <<>>, metadata |-> <<>>]

FsmTransitionRef(from, to) == [from |-> from, to |-> to]

FsmInvariant(kind, states, transitions) ==
    [kind |-> kind, states |-> states, transitions |-> transitions,
     description |-> <<>>]

FsmDefaults(initial_state) == [initial_state |-> initial_state]

FsmDefinition(states, transitions, defaults, invariants) ==
    [states |-> states, transitions |-> transitions, defaults |-> defaults,
     invariants |-> invariants]

\* struct literals naming the optional fields too
FsmTransitionMetadata(description, roles) ==
    [description |-> description, roles |-> roles]

FsmTransitionFull(from, to, action, guard, metadata) ==
    [from |-> from, to |-> to, action |-> action, guard |-> guard,
     metadata |-> metadata]

FsmInvariantFull(kind, states, transitions, description) ==
    [kind |-> kind, states |-> states, transitions |-> transitions,
     description |-> description]

\* the elements of a Vec, as the HashSet collected from it
SetOf(vec) == {vec[i] : i \in 1..Len(vec)}

\* a guard that is present required to be non-blank, like the action
RECURSIVE StructureTransitions_m2(_, _, _)
StructureTransitions_m2(self, state_set, i) ==
    IF i > Len(self.transitions)
    THEN Ok
    ELSE LET transition == self.transitions[i] IN
         IF \/ Trim(transition.from) = <<>>
            \/ Trim(transition.to) = <<>>
            \/ Trim(transition.action) = <<>>
            \/ (transition.guard # <<>> /\ Trim(transition.guard[1]) = <<>>)
         THEN InvalidInput
         ELSE IF \/ transition.from \notin state_set
                 \/ transition.to \notin state_set
              THEN InvalidInput
              ELSE StructureTransitions_m2(self, state_set, i + 1)

\* the fields tested with is_empty alone, not trimmed first
RECURSIVE StructureTransitions_m1(_, _, _)
StructureTransitions_m1(self, state_set, i) ==
    IF i > Len(self.transitions)
    THEN Ok
    ELSE LET transition == self.transitions[i] IN
         IF \/ transition.from = <<>>
            \/ transition.to = <<>>
            \/ transition.action = <<>>
         THEN InvalidInput
         ELSE IF \/ transition.from \notin state_set
                 \/ transition.to \notin state_set
              THEN InvalidInput
              ELSE StructureTransitions_m1(self, state_set, i + 1)

\* the loop of validate_structure over self.transitions, from transition i on
RECURSIVE StructureTransitions(_, _, _)
StructureTransitions(self, state_set, i) ==
    IF i > Len(self.transitions)
    THEN Ok
    ELSE LET transition == self.transitions[i] IN
         IF \/ Trim(transition.from) = <<>>
            \/ Trim(transition.to) = <<>>
            \/ Trim(transition.action) = <<>>
         THEN InvalidInput
         ELSE IF \/ transition.from \notin state_set
                 \/ transition.to \notin state_set
              THEN InvalidInput
              ELSE StructureTransitions(self, state_set, i + 1)

\* an empty default initial state taken as no initial state
FsmDefinition_validate_structure_m1(self) ==
    IF self.states = <<>> \/ self.transitions = <<>>
    THEN InvalidInput
    ELSE LET state_set == SetOf(self.states) IN
         IF StructureTransitions(self, state_set, 1) # Ok
         THEN InvalidInput
         ELSE IF /\ self.defaults # <<>>
                 /\ self.defaults[1].initial_state # <<>>
                 /\ self.defaults[1].initial_state[1] # <<>>
                 /\ self.defaults[1].initial_state[1] \notin state_set
              THEN InvalidInput
              ELSE Ok

FsmDefinition_validate_structure(self) ==
    IF self.states = <<>> \/ self.transitions = <<>>
    THEN InvalidInput
    ELSE LET state_set == SetOf(self.states) IN
         IF StructureTransitions(self, state_set, 1) # Ok
         THEN InvalidInput
         ELSE IF /\ self.defaults # <<>>
                 /\ self.defaults[1].initial_state # <<>>
                 /\ self.defaults[1].initial_state[1] \notin state_set
              THEN InvalidInput
              ELSE Ok

\* transition_set: the literal (from, to) pairs of the declared transitions
TransitionSet(self) ==
    {<<self.transitions[i].from, self.transitions[i].to>> :
        i \in 1..Len(self.transitions)}

\* the to's of the transitions i.. whose from is the given key, in declaration
\* order (the Vec pushed under one key of the adjacency map)
RECURSIVE Outbound(_, _, _)
Outbound(transitions, from, i) ==
    IF i > Len(transitions)
    THEN <<>>
    ELSE IF transitions[i].from = from
         THEN <<transitions[i].to>> \o Outbound(transitions, from, i + 1)
         ELSE Outbound(transitions, from, i + 1)

\* adjacency: a key for every from of a declared transition
Adjacency(self) ==
    [from \in {self.transitions[i].from : i \in 1..Len(self.transitions)} |->
        Outbound(self.transitions, from, 1)]

\* the loop of dfs_reaches_start over the neighbors k.. of current; the visited
\* set is threaded through the walk
RECURSIVE DfsNeighbors(_, _, _, _, _)
DfsNeighbors(current, k, start, adjacency, visited) ==
    IF current \notin DOMAIN adjacency
    THEN [found |-> FALSE, visited |-> visited]
    ELSE IF k > Len(adjacency[current])
    THEN [found |-> FALSE, visited |-> visited]
    ELSE LET neighbor == adjacency[current][k] IN
         IF neighbor = start
         THEN [found |-> TRUE, visited |-> visited]
         ELSE IF neighbor \notin visited
              THEN LET r == DfsNeighbors(neighbor, 1, start, adjacency,
                                         visited \cup {neighbor}) IN
                   IF r.found
                   THEN r
                   ELSE DfsNeighbors(current, k + 1, start, adjacency, r.visited)
              ELSE DfsNeighbors(current, k + 1, start, adjacency, visited)

\* the walk giving up after the first unvisited neighbor that does not reach
\* start, instead of going on to the next neighbor
RECURSIVE DfsNeighbors_m1(_, _, _, _, _)
DfsNeighbors_m1(current, k, start, adjacency, visited) ==
    IF current \notin DOMAIN adjacency
    THEN [found |-> FALSE, visited |-> visited]
    ELSE IF k > Len(adjacency[current])
    THEN [found |-> FALSE, visited |-> visited]
    ELSE LET neighbor == adjacency[current][k] IN
         IF neighbor = start
         THEN [found |-> TRUE, visited |-> visited]
         ELSE IF neighbor \notin visited
              THEN DfsNeighbors_m1(neighbor, 1, start, adjacency,
                                   visited \cup {neighbor})
              ELSE DfsNeighbors_m1(current, k + 1, start, adjacency, visited)

dfs_reaches_start_m1(current, start, adjacency, visited) ==
    DfsNeighbors_m1(current, 1, start, adjacency, visited)

dfs_reaches_start(current, start, adjacency, visited) ==
    DfsNeighbors(current, 1, start, adjacency, visited)

\* the loop of has_cycle_from over the neighbors k.. of start
RECURSIVE CycleNeighbors(_, _, _, _)
CycleNeighbors(start, k, adjacency, visited) ==
    IF start \notin DOMAIN adjacency
    THEN FALSE
    ELSE IF k > Len(adjacency[start])
    THEN FALSE
    ELSE LET neighbor == adjacency[start][k] IN
         IF neighbor = start
         THEN TRUE
         ELSE LET r == dfs_reaches_start(neighbor, start, adjacency, visited) IN
              IF r.found
              THEN TRUE
              ELSE CycleNeighbors(start, k + 1, adjacency, r.visited)

\* a cycle anywhere in the graph, whether or not it passes through start
has_cycle_from_m1(start, adjacency) ==
    \E node \in DOMAIN adjacency \cup {start} :
        CycleNeighbors(node, 1, adjacency, {node})

has_cycle_from(start, adjacency) ==
    CycleNeighbors(start, 1, adjacency, {start})

\* a named state failing only for a transition that leaves it for another state
TerminalStatesFails_m1(self, invariant) ==
    \E i \in 1..Len(invariant.states) :
        \E j \in 1..Len(self.transitions) :
            /\ self.transitions[j].from = invariant.states[i]
            /\ self.transitions[j].to # invariant.states[i]

\* the arms of the match on invariant.kind: TRUE when the arm returns Err
TerminalStatesFails(self, invariant) ==
    LET adjacency == Adjacency(self) IN
    \E i \in 1..Len(invariant.states) :
        /\ invariant.states[i] \in DOMAIN adjacency
        /\ adjacency[invariant.states[i]] # <<>>

\* the first listed pair checked alone
RequiredTransitionsFails_m1(self, invariant) ==
    /\ invariant.transitions # <<>>
    /\ <<invariant.transitions[1].from, invariant.transitions[1].to>>
           \notin TransitionSet(self)

RequiredTransitionsFails(self, invariant) ==
    \E i \in 1..Len(invariant.transitions) :
        <<invariant.transitions[i].from, invariant.transitions[i].to>>
            \notin TransitionSet(self)

\* a listed pair over an undeclared state failing too
ForbiddenTransitionsFails_m1(self, invariant) ==
    \E i \in 1..Len(invariant.transitions) :
        \/ <<invariant.transitions[i].from, invariant.transitions[i].to>>
               \in TransitionSet(self)
        \/ invariant.transitions[i].from \notin SetOf(self.states)
        \/ invariant.transitions[i].to \notin SetOf(self.states)

ForbiddenTransitionsFails(self, invariant) ==
    \E i \in 1..Len(invariant.transitions) :
        <<invariant.transitions[i].from, invariant.transitions[i].to>>
            \in TransitionSet(self)

ForbiddenCyclesFails(self, invariant) ==
    \E i \in 1..Len(invariant.states) :
        has_cycle_from(invariant.states[i], Adjacency(self))

\* an empty state list taken as nothing to check
SelfTransitionsRequiredFails_m1(self, invariant) ==
    \E i \in 1..Len(invariant.states) :
        <<invariant.states[i], invariant.states[i]>> \notin TransitionSet(self)

SelfTransitionsRequiredFails(self, invariant) ==
    LET states == IF invariant.states = <<>>
                  THEN self.states
                  ELSE invariant.states
    IN  \E i \in 1..Len(states) : <<states[i], states[i]>> \notin TransitionSet(self)

\* an invariant of an unknown kind skipped instead of rejected
InvariantFails_m1(self, invariant) ==
    CASE invariant.kind = "terminal_states" -> TerminalStatesFails(self, invariant)
      [] invariant.kind = "required_transitions" ->
             RequiredTransitionsFails(self, invariant)
      [] invariant.kind = "forbidden_transitions" ->
             ForbiddenTransitionsFails(self, invariant)
      [] invariant.kind = "forbidden_cycles" -> ForbiddenCyclesFails(self, invariant)
      [] invariant.kind = "self_transitions_required" ->
             SelfTransitionsRequiredFails(self, invariant)
      [] OTHER -> FALSE

\* an invariant rejected when it names a label that is not a declared state
InvariantFails_m2(self, invariant) ==
    IF \/ \E i \in 1..Len(invariant.states) :
              ~Contains(self.states, invariant.states[i])
       \/ \E i \in 1..Len(invariant.transitions) :
              \/ ~Contains(self.states, invariant.transitions[i].from)
              \/ ~Contains(self.states, invariant.transitions[i].to)
    THEN TRUE
    ELSE CASE invariant.kind = "terminal_states" ->
                  TerminalStatesFails(self, invariant)
           [] invariant.kind = "required_transitions" ->
                  RequiredTransitionsFails(self, invariant)
           [] invariant.kind = "forbidden_transitions" ->
                  ForbiddenTransitionsFails(self, invariant)
           [] invariant.kind = "forbidden_cycles" ->
                  ForbiddenCyclesFails(self, invariant)
           [] invariant.kind = "self_transitions_required" ->
                  SelfTransitionsRequiredFails(self, invariant)
           [] OTHER -> TRUE

InvariantFails(self, invariant) ==
    CASE invariant.kind = "terminal_states" -> TerminalStatesFails(self, invariant)
      [] invariant.kind = "required_transitions" ->
             RequiredTransitionsFails(self, invariant)
      [] invariant.kind = "forbidden_transitions" ->
             ForbiddenTransitionsFails(self, invariant)
      [] invariant.kind = "forbidden_cycles" -> ForbiddenCyclesFails(self, invariant)
      [] invariant.kind = "self_transitions_required" ->
             SelfTransitionsRequiredFails(self, invariant)
      [] OTHER -> TRUE

\* the loop deciding on the invariant it meets first, the later ones unread
RECURSIVE InvariantsLoop_m1(_, _)
InvariantsLoop_m1(self, i) ==
    IF i > Len(self.invariants)
    THEN [ret |-> Ok, evaluated |-> i - 1]
    ELSE IF InvariantFails(self, self.invariants[i])
         THEN [ret |-> InvalidInput, evaluated |-> i]
         ELSE [ret |-> Ok, evaluated |-> i]

\* the loop of validate_invariants over self.invariants, from invariant i on;
\* evaluated counts the invariants whose match was entered
RECURSIVE InvariantsLoop(_, _)
InvariantsLoop(self, i) ==
    IF i > Len(self.invariants)
    THEN [ret |-> Ok, evaluated |-> i - 1]
    ELSE IF InvariantFails(self, self.invariants[i])
         THEN [ret |-> InvalidInput, evaluated |-> i]
         ELSE InvariantsLoop(self, i + 1)

ValidateInvariantsRun(self) ==
    IF self.invariants = <<>>
    THEN [ret |-> Ok, evaluated |-> 0]
    ELSE InvariantsLoop(self, 1)

FsmDefinition_validate_invariants(self) == ValidateInvariantsRun(self).ret

\* the invariants validated before the structure
ValidateRun_m1(self) ==
    IF ValidateInvariantsRun(self).ret # Ok
    THEN ValidateInvariantsRun(self)
    ELSE IF FsmDefinition_validate_structure(self) # Ok
         THEN [ret |-> InvalidInput,
               evaluated |-> ValidateInvariantsRun(self).evaluated]
         ELSE ValidateInvariantsRun(self)

\* validate: the Result and the number of invariants it evaluated
ValidateRun(self) ==
    IF FsmDefinition_validate_structure(self) # Ok
    THEN [ret |-> InvalidInput, evaluated |-> 0]
    ELSE ValidateInvariantsRun(self)

FsmDefinition_validate(self) == ValidateRun(self).ret

NoDefinition == FsmDefinition(<<>>, <<>>, <<>>, <<>>)

---------------------------------------------------------------------------
(* src/src/definition.rs: the derived Serialize / Deserialize.  A JSON     *)
(* object is a function from its keys; a field with skip_serializing_if is *)
(* a key left out, a field with default is filled in when its key is       *)
(* missing; a string is written between quotes with its quotes and         *)
(* backslashes escaped.                                                    *)

Quote == "\""

Backslash == "\\"

RECURSIVE Escape(_)
Escape(str) ==
    IF str = <<>>
    THEN <<>>
    ELSE IF Head(str) \in {Quote, Backslash}
         THEN <<Backslash, Head(str)>> \o Escape(Tail(str))
         ELSE <<Head(str)>> \o Escape(Tail(str))

RECURSIVE Unescape(_)
Unescape(text) ==
    IF text = <<>>
    THEN <<>>
    ELSE IF Head(text) = Backslash /\ Len(text) >= 2
         THEN <<text[2]>> \o Unescape(Tail(Tail(text)))
         ELSE <<Head(text)>> \o Unescape(Tail(text))

ToJson_String(str) == <<Quote>> \o Escape(str) \o <<Quote>>

FromJson_String(text) == Unescape(SubSeq(text, 2, Len(text) - 1))

ToJson_Strings(vec) == [i \in 1..Len(vec) |-> ToJson_String(vec[i])]

FromJson_Strings(array) == [i \in 1..Len(array) |-> FromJson_String(array[i])]

\* the keys written for a struct: the required ones and the optional ones
\* whose skip_serializing_if does not hold
Written(required, optional) ==
    required \cup {key \in DOMAIN optional : optional[key]}

ToJson_FsmTransitionRef(self) ==
    [key \in {"from", "to"} |->
        IF key = "from" THEN ToJson_String(self.from) ELSE ToJson_String(self.to)]

FromJson_FsmTransitionRef(json) ==
    FsmTransitionRef(FromJson_String(json["from"]), FromJson_String(json["to"]))

ToJson_FsmTransitionMetadata(self) ==
    [key \in Written({}, [description |-> self.description # <<>>,
                          roles |-> self.roles # <<>>]) |->
        IF key = "description"
        THEN ToJson_String(self.description[1])
        ELSE ToJson_Strings(self.roles)]

FromJson_FsmTransitionMetadata(json) ==
    FsmTransitionMetadata(
        IF "description" \in DOMAIN json
        THEN <<FromJson_String(json["description"])>>
        ELSE <<>>,
        IF "roles" \in DOMAIN json THEN FromJson_Strings(json["roles"]) ELSE <<>>)

ToJson_FsmTransition(self) ==
    [key \in Written({"from", "to", "action"},
                     [guard |-> self.guard # <<>>,
                      metadata |-> self.metadata # <<>>]) |->
        CASE key = "from" -> ToJson_String(self.from)
          [] key = "to" -> ToJson_String(self.to)
          [] key = "action" -> ToJson_String(self.action)
          [] key = "guard" -> ToJson_String(self.guard[1])
          [] key = "metadata" -> ToJson_FsmTransitionMetadata(self.metadata[1])]

FromJson_FsmTransition(json) ==
    FsmTransitionFull(
        FromJson_String(json["from"]),
        FromJson_String(json["to"]),
        FromJson_String(json["action"]),
        IF "guard" \in DOMAIN json THEN <<FromJson_String(json["guard"])>> ELSE <<>>,
        IF "metadata" \in DOMAIN json
        THEN <<FromJson_FsmTransitionMetadata(json["metadata"])>>
        ELSE <<>>)

ToJson_FsmInvariant(self) ==
    [key \in Written({"kind"},
                     [states |-> self.states # <<>>,
                      transitions |-> self.transitions # <<>>,
                      description |-> self.description # <<>>]) |->
        CASE key = "kind" -> self.kind
          [] key = "states" -> ToJson_Strings(self.states)
          [] key = "transitions" ->
                 [i \in 1..Len(self.transitions) |->
                     ToJson_FsmTransitionRef(self.transitions[i])]
          [] key = "description" -> ToJson_String(self.description[1])]

FromJson_FsmInvariant(json) ==
    FsmInvariantFull(
        json["kind"],
        IF "states" \in DOMAIN json THEN FromJson_Strings(json["states"]) ELSE <<>>,
        IF "transitions" \in DOMAIN json
        THEN [i \in 1..Len(json["transitions"]) |->
                 FromJson_FsmTransitionRef(json["transitions"][i])]
        ELSE <<>>,
        IF "description" \in DOMAIN json
        THEN <<FromJson_String(json["description"])>>
        ELSE <<>>)

\* initial_state is written under the key initialState
ToJson_FsmDefaults(self) ==
    [key \in Written({}, [initialState |-> self.initial_state # <<>>]) |->
        ToJson_String(self.initial_state[1])]

FromJson_FsmDefaults(json) ==
    FsmDefaults(IF "initialState" \in DOMAIN json
                THEN <<FromJson_String(json["initialState"])>>
                ELSE <<>>)

ToJson_FsmDefinition(self) ==
    [key \in Written({"states", "transitions"},
                     [defaults |-> self.defaults # <<>>,
                      invariants |-> self.invariants # <<>>]) |->
        CASE key = "states" -> ToJson_Strings(self.states)
          [] key = "transitions" ->
                 [i \in 1..Len(self.transitions) |->
                     ToJson_FsmTransition(self.transitions[i])]
          [] key = "defaults" -> ToJson_FsmDefaults(self.defaults[1])
          [] key = "invariants" ->
                 [i \in 1..Len(self.invariants) |->
                     ToJson_FsmInvariant(self.invariants[i])]]

\* a missing invariants key taken as a missing field, as without
\* #[serde(default)]
FromJson_FsmDefinition_m1(json) ==
    IF {"states", "transitions", "invariants"} \subseteq DOMAIN json
    THEN [ok |-> TRUE,
          value |-> FsmDefinition(
              FromJson_Strings(json["states"]),
              [i \in 1..Len(json["transitions"]) |->
                  FromJson_FsmTransition(json["transitions"][i])],
              IF "defaults" \in DOMAIN json
              THEN <<FromJson_FsmDefaults(json["defaults"])>>
              ELSE <<>>,
              [i \in 1..Len(json["invariants"]) |->
                  FromJson_FsmInvariant(json["invariants"][i])])]
    ELSE [ok |-> FALSE, value |-> NoDefinition]

\* Result<FsmDefinition, serde_json::Error>: an error when a required key of
\* the definition is missing
FromJson_FsmDefinition(json) ==
    IF {"states", "transitions"} \subseteq DOMAIN json
    THEN [ok |-> TRUE,
          value |-> FsmDefinition(
              FromJson_Strings(json["states"]),
              [i \in 1..Len(json["transitions"]) |->
                  FromJson_FsmTransition(json["transitions"][i])],
              IF "defaults" \in DOMAIN json
              THEN <<FromJson_FsmDefaults(json["defaults"])>>
              ELSE <<>>,
              IF "invariants" \in DOMAIN json
              THEN [i \in 1..Len(json["invariants"]) |->
                       FromJson_FsmInvariant(json["invariants"][i])]
              ELSE <<>>)]
    ELSE [ok |-> FALSE, value |-> NoDefinition]

ParseError == "ParseError"

\* serde_json::to_string, serde_json::from_str, then validate
ValidateReparsedRun(self) ==
    LET parsed == FromJson_FsmDefinition(ToJson_FsmDefinition(self)) IN
    IF parsed.ok
    THEN ValidateRun(parsed.value)
    ELSE [ret |-> ParseError, evaluated |-> 0]


NoOutcome == [op |-> "none", ret |-> "none", evaluated |-> 0]

\* no call in progress
NoRun ==
    [pc |-> "idle", i |-> 0, j |-> 0, stack |-> <<>>, visited |-> {},
     ret |-> "none"]

---------------------------------------------------------------------------
(* src/src/grant/lifecycle.rs: Grant.  Of the struct's fields the model    *)
(* keeps status and the amounts, the ones the lifecycle methods read or    *)
(* write.                                                                  *)

InvalidState == "InvalidState"

Overflow == "Overflow"

\* u64::checked_add: None on overflow
checked_add(a, b) == IF a + b > U64Max THEN <<>> ELSE <<a + b>>

Grant(status, base_amount, reputation_bonus, total_amount, disbursed_amount) ==
    [status |-> status, base_amount |-> base_amount,
     reputation_bonus |-> reputation_bonus, total_amount |-> total_amount,
     disbursed_amount |-> disbursed_amount]

Grant_default == Grant("Pending", 0, 0, 0, 0)

\* Grant::new: Result<Grant, FsmError>
Grant_new(base_amount, reputation_bonus) ==
    IF checked_add(base_amount, reputation_bonus) = <<>>
    THEN [ret |-> Overflow, grant |-> Grant_default]
    ELSE [ret |-> Ok,
          grant |-> Grant("Pending", base_amount, reputation_bonus,
                          checked_add(base_amount, reputation_bonus)[1], 0)]

Grant_approve(self) ==
    IF self.status # "Pending"
    THEN [ret |-> InvalidState, grant |-> self]
    ELSE [ret |-> Ok, grant |-> [self EXCEPT !.status = "Approved"]]

\* the status guard left out
Grant_activate_m1(self) ==
    [ret |-> Ok, grant |-> [self EXCEPT !.status = "Active"]]

Grant_activate(self) ==
    IF self.status # "Approved"
    THEN [ret |-> InvalidState, grant |-> self]
    ELSE [ret |-> Ok, grant |-> [self EXCEPT !.status = "Active"]]

\* the comparison with total_amount left out
Grant_disburse_m1(self, amount) ==
    IF self.status # "Active"
    THEN [ret |-> InvalidState, grant |-> self]
    ELSE IF checked_add(self.disbursed_amount, amount) = <<>>
    THEN [ret |-> Overflow, grant |-> self]
    ELSE LET new_amount == checked_add(self.disbursed_amount, amount)[1] IN
         [ret |-> Ok,
          grant |-> [self EXCEPT
                        !.disbursed_amount = new_amount,
                        !.status = IF new_amount = self.total_amount
                                   THEN "Completed"
                                   ELSE self.status]]

Grant_disburse(self, amount) ==
    IF self.status # "Active"
    THEN [ret |-> InvalidState, grant |-> self]
    ELSE IF checked_add(self.disbursed_amount, amount) = <<>>
    THEN [ret |-> Overflow, grant |-> self]
    ELSE LET new_amount == checked_add(self.disbursed_amount, amount)[1] IN
         IF new_amount > self.total_amount
         THEN [ret |-> InvalidInput, grant |-> self]
         ELSE [ret |-> Ok,
               grant |-> [self EXCEPT
                             !.disbursed_amount = new_amount,
                             !.status = IF new_amount = self.total_amount
                                        THEN "Completed"
                                        ELSE self.status]]

---------------------------------------------------------------------------
(* src/src/proposal/types.rs, src/src/proposal/lifecycle.rs: Proposal.  Of  *)
(* the struct's fields the model keeps the ones the lifecycle methods read  *)
(* or write.  A bool result is "Ok(true)" or "Ok(false)".  The sum          *)
(* created_at + voting_duration is unchecked: on overflow a build with      *)
(* overflow checks panics and a build without them wraps around, so the     *)
(* methods that compute it take the build's overflow_checks setting.        *)

ProposalStates ==
    {"Draft", "Active", "Passed", "Rejected", "Executed", "Cancelled",
     "Archived", "Tied"}

InsufficientMembers == "InsufficientMembers"

OkTrue == "Ok(true)"

OkFalse == "Ok(false)"

Panic == "panic"

\* i64 wrapping addition of two non-negative times
wrapping_add(a, b) ==
    IF a + b > I64Max THEN a + b - 2 * (I64Max + 1) ELSE a + b

\* i64::checked_add of two non-negative times: None on overflow
i64_checked_add(a, b) == IF a + b > I64Max THEN <<>> ELSE <<a + b>>

\* Proposal::new_with_time on a title, description and type of valid length
Proposal_new_with_time(current_time) ==
    [status              |-> "Draft",
     created_at          |-> current_time,
     submitted_at        |-> <<>>,
     cancelled_at        |-> <<>>,
     executed_at         |-> <<>>,
     archived_at         |-> <<>>,
     voting_duration     |-> VotingDuration,
     yes_votes           |-> 0,
     no_votes            |-> 0,
     last_tallied_at     |-> <<>>,
     cancellation_reason |-> <<>>,
     expires_at          |-> <<>>]

NoProposal == Proposal_new_with_time(0)

Proposal_activate_with_time(self, min_quorum, total_members, current_time) ==
    IF ~(self.status = "Draft")
    THEN [ret |-> InvalidInput, proposal |-> self]
    ELSE IF ~(total_members >= min_quorum)
    THEN [ret |-> InsufficientMembers, proposal |-> self]
    ELSE IF ~(min_quorum > 0)
    THEN [ret |-> InvalidInput, proposal |-> self]
    ELSE IF ~(total_members > 0)
    THEN [ret |-> InvalidInput, proposal |-> self]
    ELSE [ret |-> Ok,
          proposal |-> [self EXCEPT !.status = "Active",
                                    !.submitted_at = <<current_time>>]]

\* the body shared by pass_with_time and reject_with_time, which differ in the
\* status they assign
VotingClosed(self, current_time, overflow_checks, status) ==
    IF ~(self.status = "Active")
    THEN [ret |-> InvalidInput, proposal |-> self]
    ELSE IF overflow_checks /\ self.created_at + self.voting_duration > I64Max
    THEN [ret |-> Panic, proposal |-> self]
    ELSE LET voting_end == wrapping_add(self.created_at, self.voting_duration) IN
         IF ~(current_time >= voting_end)
         THEN [ret |-> InvalidState, proposal |-> self]
         ELSE [ret |-> Ok, proposal |-> [self EXCEPT !.status = status]]

Proposal_pass_with_time(self, current_time, overflow_checks) ==
    VotingClosed(self, current_time, overflow_checks, "Passed")

Proposal_reject_with_time(self, current_time, overflow_checks) ==
    VotingClosed(self, current_time, overflow_checks, "Rejected")

Proposal_execute_with_time(self, current_time) ==
    IF ~(self.status = "Passed")
    THEN [ret |-> InvalidInput, proposal |-> self]
    ELSE IF ~(self.executed_at = <<>>)
    THEN [ret |-> InvalidState, proposal |-> self]
    ELSE [ret |-> Ok,
          proposal |-> [self EXCEPT !.status = "Executed",
                                    !.executed_at = <<current_time>>]]

Proposal_cancel_with_time(self, reason, current_time) ==
    IF ~(self.status = "Draft" \/ self.status = "Active")
    THEN [ret |-> InvalidInput, proposal |-> self]
    ELSE [ret |-> Ok,
          proposal |-> [self EXCEPT !.status = "Cancelled",
                                    !.cancelled_at = <<current_time>>,
                                    !.cancellation_reason = <<reason>>]]

\* cancel(reason): cancel_with_time at time 0
Proposal_cancel(self, reason) == Proposal_cancel_with_time(self, reason, 0)

\* a tied proposal archived like a rejected one
Proposal_archive_with_time_m1(self, current_time) ==
    IF ~(\/ self.status = "Executed"
         \/ self.status = "Rejected"
         \/ self.status = "Cancelled"
         \/ self.status = "Tied")
    THEN [ret |-> InvalidInput, proposal |-> self]
    ELSE [ret |-> Ok,
          proposal |-> [self EXCEPT !.status = "Archived",
                                    !.archived_at = <<current_time>>]]

Proposal_archive_with_time(self, current_time) ==
    IF ~(\/ self.status = "Executed"
         \/ self.status = "Rejected"
         \/ self.status = "Cancelled")
    THEN [ret |-> InvalidInput, proposal |-> self]
    ELSE [ret |-> Ok,
          proposal |-> [self EXCEPT !.status = "Archived",
                                    !.archived_at = <<current_time>>]]

\* archive(): archive_with_time at time 0
Proposal_archive(self) == Proposal_archive_with_time(self, 0)

Proposal_check_and_auto_archive(self, current_time) ==
    IF /\ self.expires_at # <<>>
       /\ current_time >= self.expires_at[1]
       /\ \/ self.status = "Executed"
          \/ self.status = "Rejected"
          \/ self.status = "Cancelled"
    THEN IF Proposal_archive_with_time(self, current_time).ret # Ok
         THEN Proposal_archive_with_time(self, current_time)
         ELSE [ret |-> OkTrue,
               proposal |-> Proposal_archive_with_time(self, current_time).proposal]
    ELSE [ret |-> OkFalse, proposal |-> self]

Proposal_set_expiration(self, expires_at) ==
    IF expires_at # <<>> /\ ~(expires_at[1] > self.created_at)
    THEN [ret |-> InvalidInput, proposal |-> self]
    ELSE [ret |-> Ok, proposal |-> [self EXCEPT !.expires_at = expires_at]]

\* the ? after pass_with_time / reject_with_time: an Err is returned as it is,
\* an Ok goes on to return Ok(true)
Transitioned(result) ==
    IF result.ret # Ok
    THEN result
    ELSE [ret |-> OkTrue, proposal |-> result.proposal]

Proposal_auto_transition_after_voting(self, current_time, overflow_checks) ==
    IF self.status # "Active"
    THEN [ret |-> OkFalse, proposal |-> self]
    ELSE LET voting_start == IF self.submitted_at = <<>>
                             THEN self.created_at
                             ELSE self.submitted_at[1]
         IN
         IF i64_checked_add(voting_start, self.voting_duration) = <<>>
         THEN [ret |-> Overflow, proposal |-> self]
         ELSE LET voting_end == i64_checked_add(voting_start,
                                                self.voting_duration)[1]
              IN
              IF current_time >= voting_end
              THEN IF self.yes_votes > self.no_votes
                   THEN Transitioned(Proposal_pass_with_time(
                                         self, current_time, overflow_checks))
                   ELSE IF self.no_votes > self.yes_votes
                   THEN Transitioned(Proposal_reject_with_time(
                                         self, current_time, overflow_checks))
                   ELSE [ret |-> OkTrue,
                         proposal |-> [self EXCEPT
                                          !.status = "Tied",
                                          !.last_tallied_at = <<current_time>>]]
              ELSE [ret |-> OkFalse, proposal |-> self]

---------------------------------------------------------------------------
(* Calls on the fixed transition tables                                    *)

NoCall ==
    [kind |-> "none", op |-> "none", self |-> "none", target |-> "none",
     can |-> FALSE, res |-> "none", next |-> <<>>]

\* any variant of the two enums can be the receiver of a call; no trail
InitFsm ==
    /\ ideaStatus \in IdeaStates
    /\ grantStatus \in GrantStates
    /\ call = NoCall
    /\ grant = Grant_default
    /\ proposal = NoProposal
    /\ run = NoRun
    /\ entries = <<>>
    /\ op = "none"
    /\ arg = NoEntry
    /\ ret = "none"
    /\ view = <<>>
    /\ prev = <<>>
    /\ accepted = <<>>
    /\ definition = NoDefinition
    /\ outcome = NoOutcome

IdeaNextStates ==
    /\ call' = [NoCall EXCEPT !.kind = "idea", !.op = "next_states",
                              !.self = ideaStatus,
                              !.next = IdeaStatus_next_states(ideaStatus)]
    /\ UNCHANGED <<ideaStatus, grantStatus, grant, proposal>>
    /\ UNCHANGED <<entries, op, arg, ret, view, prev, accepted>>
    /\ UNCHANGED <<definition, outcome, run>>

IdeaCanTransitionTo(target) ==
    /\ call' = [NoCall EXCEPT !.kind = "idea", !.op = "can_transition_to",
                              !.self = ideaStatus, !.target = target,
                              !.can = IdeaStatus_can_transition_to(ideaStatus, target)]
    /\ UNCHANGED <<ideaStatus, grantStatus, grant, proposal>>
    /\ UNCHANGED <<entries, op, arg, ret, view, prev, accepted>>
    /\ UNCHANGED <<definition, outcome, run>>

IdeaValidateTransition(target) ==
    /\ call' = [NoCall EXCEPT !.kind = "idea", !.op = "validate_transition",
                              !.self = ideaStatus, !.target = target,
                              !.res = IdeaStatus_validate_transition(ideaStatus, target)]
    /\ UNCHANGED <<ideaStatus, grantStatus, grant, proposal>>
    /\ UNCHANGED <<entries, op, arg, ret, view, prev, accepted>>
    /\ UNCHANGED <<definition, outcome, run>>

GrantNextStates ==
    /\ call' = [NoCall EXCEPT !.kind = "grant", !.op = "next_states",
                              !.self = grantStatus,
                              !.next = GrantStatus_next_states(grantStatus)]
    /\ UNCHANGED <<ideaStatus, grantStatus, grant, proposal>>
    /\ UNCHANGED <<entries, op, arg, ret, view, prev, accepted>>
    /\ UNCHANGED <<definition, outcome, run>>

GrantCanTransitionTo(target) ==
    /\ call' = [NoCall EXCEPT !.kind = "grant", !.op = "can_transition_to",
                              !.self = grantStatus, !.target = target,
                              !.can = GrantStatus_can_transition_to(grantStatus, target)]
    /\ UNCHANGED <<ideaStatus, grantStatus, grant, proposal>>
    /\ UNCHANGED <<entries, op, arg, ret, view, prev, accepted>>
    /\ UNCHANGED <<definition, outcome, run>>

GrantValidateTransition(target) ==
    /\ call' = [NoCall EXCEPT !.kind = "grant", !.op = "validate_transition",
                              !.self = grantStatus, !.target = target,
                              !.res = GrantStatus_validate_transition(grantStatus, target)]
    /\ UNCHANGED <<ideaStatus, grantStatus, grant, proposal>>
    /\ UNCHANGED <<entries, op, arg, ret, view, prev, accepted>>
    /\ UNCHANGED <<definition, outcome, run>>

NextFsm ==
    \/ IdeaNextStates
    \/ \E target \in IdeaStates : IdeaCanTransitionTo(target)
    \/ \E target \in IdeaStates : IdeaValidateTransition(target)
    \/ GrantNextStates
    \/ \E target \in GrantStates : GrantCanTransitionTo(target)
    \/ \E target \in GrantStates : GrantValidateTransition(target)

---------------------------------------------------------------------------
(* An idea moved along the table: its status is changed to the target only *)
(* after validate_transition returned Ok                                   *)

InitIdea ==
    /\ ideaStatus = "Draft"
    /\ grantStatus = "Pending"
    /\ call = NoCall
    /\ grant = Grant_default
    /\ proposal = NoProposal
    /\ run = NoRun
    /\ entries = <<>>
    /\ op = "none"
    /\ arg = NoEntry
    /\ ret = "none"
    /\ view = <<>>
    /\ prev = <<>>
    /\ accepted = <<>>
    /\ definition = NoDefinition
    /\ outcome = NoOutcome

IdeaTransition(target) ==
    /\ call' = [NoCall EXCEPT !.kind = "idea", !.op = "transition",
                              !.self = ideaStatus, !.target = target,
                              !.res = IdeaStatus_validate_transition(ideaStatus, target)]
    /\ ideaStatus' = IF IdeaStatus_validate_transition(ideaStatus, target) = Ok
                     THEN target
                     ELSE ideaStatus
    /\ UNCHANGED <<grantStatus, grant, proposal>>
    /\ UNCHANGED <<entries, op, arg, ret, view, prev, accepted>>
    /\ UNCHANGED <<definition, outcome, run>>

NextIdea == \E target \in IdeaStates : IdeaTransition(target)

---------------------------------------------------------------------------
(* A grant status moved along the table: it is changed to the target only  *)
(* after validate_transition returned Ok                                   *)

\* the walk can start in any variant of GrantStatus
InitGrantWalk ==
    /\ grantStatus \in GrantStates
    /\ ideaStatus = "Draft"
    /\ call = NoCall
    /\ grant = Grant_default
    /\ proposal = NoProposal
    /\ run = NoRun
    /\ entries = <<>>
    /\ op = "none"
    /\ arg = NoEntry
    /\ ret = "none"
    /\ view = <<>>
    /\ prev = <<>>
    /\ accepted = <<>>
    /\ definition = NoDefinition
    /\ outcome = NoOutcome

GrantTransition(target) ==
    /\ call' = [NoCall EXCEPT !.kind = "grant", !.op = "transition",
                              !.self = grantStatus, !.target = target,
                              !.res = GrantStatus_validate_transition(grantStatus, target)]
    /\ grantStatus' = IF GrantStatus_validate_transition(grantStatus, target) = Ok
                      THEN target
                      ELSE grantStatus
    /\ UNCHANGED <<ideaStatus, grant, proposal>>
    /\ UNCHANGED <<entries, op, arg, ret, view, prev, accepted>>
    /\ UNCHANGED <<definition, outcome, run>>

\* the table can be asked before a move is made
NextGrantWalk ==
    \/ \E target \in GrantStates : GrantTransition(target)
    \/ \E target \in GrantStates : GrantCanTransitionTo(target)
    \/ GrantNextStates

---------------------------------------------------------------------------
(* Calls on a grant                                                        *)

\* a grant as Grant::new returns it
InitGrant ==
    /\ grant \in {Grant_new(base_amount, reputation_bonus).grant :
                     base_amount \in 0..U64Max,
                     reputation_bonus \in 0..U64Max}
    /\ proposal = NoProposal
    /\ run = NoRun
    /\ ideaStatus = "Draft"
    /\ grantStatus = "Pending"
    /\ call = NoCall
    /\ entries = <<>>
    /\ op = "none"
    /\ arg = NoEntry
    /\ ret = "none"
    /\ view = <<>>
    /\ prev = <<>>
    /\ accepted = <<>>
    /\ definition = NoDefinition
    /\ outcome = NoOutcome

Approve ==
    /\ grant' = Grant_approve(grant).grant
    /\ call' = [NoCall EXCEPT !.kind = "grant", !.op = "approve",
                              !.self = grant.status,
                              !.res = Grant_approve(grant).ret]
    /\ UNCHANGED <<ideaStatus, grantStatus, proposal>>
    /\ UNCHANGED <<entries, op, arg, ret, view, prev, accepted>>
    /\ UNCHANGED <<definition, outcome, run>>

Activate ==
    /\ grant' = Grant_activate(grant).grant
    /\ call' = [NoCall EXCEPT !.kind = "grant", !.op = "activate",
                              !.self = grant.status,
                              !.res = Grant_activate(grant).ret]
    /\ UNCHANGED <<ideaStatus, grantStatus, proposal>>
    /\ UNCHANGED <<entries, op, arg, ret, view, prev, accepted>>
    /\ UNCHANGED <<definition, outcome, run>>

Disburse(amount) ==
    /\ grant' = Grant_disburse(grant, amount).grant
    /\ call' = [NoCall EXCEPT !.kind = "grant", !.op = "disburse",
                              !.self = grant.status,
                              !.res = Grant_disburse(grant, amount).ret]
    /\ UNCHANGED <<ideaStatus, grantStatus, proposal>>
    /\ UNCHANGED <<entries, op, arg, ret, view, prev, accepted>>
    /\ UNCHANGED <<definition, outcome, run>>

NextGrant ==
    \/ Approve
    \/ Activate
    \/ \E amount \in 0..U64Max : Disburse(amount)

---------------------------------------------------------------------------
(* Calls on a proposal                                                     *)

\* the largest quorum and member count passed to activate
MaxMembers == 1

\* a proposal as Proposal::new_with_time returns it, created at any time, with
\* the vote counts written to its public fields as the tests of
\* auto_transition_after_voting write them (no method of Proposal changes
\* them, and only auto_transition_after_voting reads them)
InitProposal ==
    /\ proposal \in {[Proposal_new_with_time(current_time) EXCEPT
                         !.yes_votes = yes_votes, !.no_votes = no_votes] :
                        current_time \in 0..I64Max,
                        yes_votes \in 0..MaxVotes,
                        no_votes \in 0..MaxVotes}
    /\ call = NoCall
    /\ grant = Grant_default
    /\ run = NoRun
    /\ ideaStatus = "Draft"
    /\ grantStatus = "Pending"
    /\ entries = <<>>
    /\ op = "none"
    /\ arg = NoEntry
    /\ ret = "none"
    /\ view = <<>>
    /\ prev = <<>>
    /\ accepted = <<>>
    /\ definition = NoDefinition
    /\ outcome = NoOutcome

ActivateWithTime(min_quorum, total_members, current_time) ==
    /\ proposal' = Proposal_activate_with_time(proposal, min_quorum, total_members, current_time).proposal
    /\ call' = [NoCall EXCEPT !.kind = "proposal", !.op = "activate_with_time",
                              !.self = proposal.status,
                              !.res = Proposal_activate_with_time(proposal, min_quorum, total_members, current_time).ret]
    /\ UNCHANGED <<ideaStatus, grantStatus, grant>>
    /\ UNCHANGED <<entries, op, arg, ret, view, prev, accepted>>
    /\ UNCHANGED <<definition, outcome, run>>

PassWithTime(current_time, overflow_checks) ==
    /\ proposal' = Proposal_pass_with_time(proposal, current_time, overflow_checks).proposal
    /\ call' = [NoCall EXCEPT !.kind = "proposal", !.op = "pass_with_time",
                              !.self = proposal.status,
                              !.res = Proposal_pass_with_time(proposal, current_time, overflow_checks).ret]
    /\ UNCHANGED <<ideaStatus, grantStatus, grant>>
    /\ UNCHANGED <<entries, op, arg, ret, view, prev, accepted>>
    /\ UNCHANGED <<definition, outcome, run>>

RejectWithTime(current_time, overflow_checks) ==
    /\ proposal' = Proposal_reject_with_time(proposal, current_time, overflow_checks).proposal
    /\ call' = [NoCall EXCEPT !.kind = "proposal", !.op = "reject_with_time",
                              !.self = proposal.status,
                              !.res = Proposal_reject_with_time(proposal, current_time, overflow_checks).ret]
    /\ UNCHANGED <<ideaStatus, grantStatus, grant>>
    /\ UNCHANGED <<entries, op, arg, ret, view, prev, accepted>>
    /\ UNCHANGED <<definition, outcome, run>>

ExecuteWithTime(current_time) ==
    /\ proposal' = Proposal_execute_with_time(proposal, current_time).proposal
    /\ call' = [NoCall EXCEPT !.kind = "proposal", !.op = "execute_with_time",
                              !.self = proposal.status,
                              !.res = Proposal_execute_with_time(proposal, current_time).ret]
    /\ UNCHANGED <<ideaStatus, grantStatus, grant>>
    /\ UNCHANGED <<entries, op, arg, ret, view, prev, accepted>>
    /\ UNCHANGED <<definition, outcome, run>>

Cancel(reason) ==
    /\ proposal' = Proposal_cancel(proposal, reason).proposal
    /\ call' = [NoCall EXCEPT !.kind = "proposal", !.op = "cancel",
                              !.self = proposal.status,
                              !.res = Proposal_cancel(proposal, reason).ret]
    /\ UNCHANGED <<ideaStatus, grantStatus, grant>>
    /\ UNCHANGED <<entries, op, arg, ret, view, prev, accepted>>
    /\ UNCHANGED <<definition, outcome, run>>

Archive ==
    /\ proposal' = Proposal_archive(proposal).proposal
    /\ call' = [NoCall EXCEPT !.kind = "proposal", !.op = "archive",
                              !.self = proposal.status,
                              !.res = Proposal_archive(proposal).ret]
    /\ UNCHANGED <<ideaStatus, grantStatus, grant>>
    /\ UNCHANGED <<entries, op, arg, ret, view, prev, accepted>>
    /\ UNCHANGED <<definition, outcome, run>>

CheckAndAutoArchive(current_time) ==
    /\ proposal' = Proposal_check_and_auto_archive(proposal, current_time).proposal
    /\ call' = [NoCall EXCEPT !.kind = "proposal", !.op = "check_and_auto_archive",
                              !.self = proposal.status,
                              !.res = Proposal_check_and_auto_archive(proposal, current_time).ret]
    /\ UNCHANGED <<ideaStatus, grantStatus, grant>>
    /\ UNCHANGED <<entries, op, arg, ret, view, prev, accepted>>
    /\ UNCHANGED <<definition, outcome, run>>

SetExpiration(expires_at) ==
    /\ proposal' = Proposal_set_expiration(proposal, expires_at).proposal
    /\ call' = [NoCall EXCEPT !.kind = "proposal", !.op = "set_expiration",
                              !.self = proposal.status,
                              !.res = Proposal_set_expiration(proposal, expires_at).ret]
    /\ UNCHANGED <<ideaStatus, grantStatus, grant>>
    /\ UNCHANGED <<entries, op, arg, ret, view, prev, accepted>>
    /\ UNCHANGED <<definition, outcome, run>>

AutoTransitionAfterVoting(current_time, overflow_checks) ==
    /\ proposal' = Proposal_auto_transition_after_voting(proposal, current_time, overflow_checks).proposal
    /\ call' = [NoCall EXCEPT !.kind = "proposal", !.op = "auto_transition_after_voting",
                              !.self = proposal.status,
                              !.res = Proposal_auto_transition_after_voting(proposal, current_time, overflow_checks).ret]
    /\ UNCHANGED <<ideaStatus, grantStatus, grant>>
    /\ UNCHANGED <<entries, op, arg, ret, view, prev, accepted>>
    /\ UNCHANGED <<definition, outcome, run>>

NextProposal ==
    \/ \E min_quorum \in 0..MaxMembers : \E total_members \in 0..MaxMembers :
           \E current_time \in 0..I64Max :
               ActivateWithTime(min_quorum, total_members, current_time)
    \/ \E current_time \in 0..I64Max : \E overflow_checks \in BOOLEAN :
           PassWithTime(current_time, overflow_checks)
    \/ \E current_time \in 0..I64Max : \E overflow_checks \in BOOLEAN :
           RejectWithTime(current_time, overflow_checks)
    \/ \E current_time \in {0, I64Max} : ExecuteWithTime(current_time)
    \/ Cancel("withdrawn")
    \/ Archive
    \/ \E current_time \in 0..I64Max : CheckAndAutoArchive(current_time)
    \/ \E expires_at \in {<<>>, <<0>>, <<I64Max>>} : SetExpiration(expires_at)
    \/ \E current_time \in 0..I64Max : \E overflow_checks \in BOOLEAN :
           AutoTransitionAfterVoting(current_time, overflow_checks)

---------------------------------------------------------------------------
(* Calls on an audit trail                                                 *)

\* the trail after AuditTrail::new(); no call on the tables
InitAudit ==
    /\ entries = AuditTrail_new
    /\ op = "new"
    /\ arg = NoEntry
    /\ ret = "none"
    /\ view = <<>>
    /\ prev = <<>>
    /\ accepted = <<>>
    /\ ideaStatus = "Draft"
    /\ grantStatus = "Pending"
    /\ call = NoCall
    /\ grant = Grant_default
    /\ proposal = NoProposal
    /\ run = NoRun
    /\ definition = NoDefinition
    /\ outcome = NoOutcome

Record(entry) ==
    LET r == AuditTrail_record(entries, entry) IN
    /\ Len(r.entries) <= MaxTrail
    /\ entries' = r.entries
    /\ ret' = r.ret
    /\ op' = "record"
    /\ arg' = entry
    /\ view' = <<>>
    /\ prev' = entries
    /\ accepted' = IF r.ret = Ok THEN Append(accepted, entry) ELSE accepted
    /\ UNCHANGED <<ideaStatus, grantStatus, call, grant, proposal>>
    /\ UNCHANGED <<definition, outcome, run>>

Verify ==
    /\ ret' = AuditTrail_verify(entries)
    /\ op' = "verify"
    /\ arg' = NoEntry
    /\ view' = <<>>
    /\ prev' = entries
    /\ UNCHANGED <<entries, accepted>>
    /\ UNCHANGED <<ideaStatus, grantStatus, call, grant, proposal>>
    /\ UNCHANGED <<definition, outcome, run>>

Entries ==
    /\ view' = AuditTrail_entries(entries)
    /\ op' = "entries"
    /\ arg' = NoEntry
    /\ ret' = "none"
    /\ prev' = entries
    /\ UNCHANGED <<entries, accepted>>
    /\ UNCHANGED <<ideaStatus, grantStatus, call, grant, proposal>>
    /\ UNCHANGED <<definition, outcome, run>>

NextAudit ==
    \/ \E entry \in AuditInputs : Record(entry)
    \/ Verify
    \/ Entries

---------------------------------------------------------------------------
(* The recorded entries of the end-to-end scenarios                        *)

\* scenario 4 (Pending -> Approved at 1000, then Approved -> Active or
\* Active -> Completed at 1100, all of grant 1), the entry of a second grant,
\* and the rejected entry of scenario 5
ChainInputs ==
    {AuditEntry_new(1, 0, "Pending", "Approved", "test", 1000, "metadata"),
     AuditEntry_new(1, 0, "Approved", "Active", "test", 1100, "metadata"),
     AuditEntry_new(1, 0, "Active", "Completed", "test", 1100, "metadata"),
     AuditEntry_new(1, 0, "Approved", "Active", "backdated", 900, "metadata"),
     SecondGrantEntry("Pending", "Approved"),
     SampleEntry("Approved", "Pending")}

NextAuditChain ==
    \/ \E entry \in ChainInputs : Record(entry)
    \/ Verify
    \/ Entries

---------------------------------------------------------------------------
(* The recorded entries of a grant reaching the end of its lifecycle        *)

\* the closing transitions of grant 1 (Active -> Completed -> Archived and the
\* no-op on Archived), the reopening that the table refuses, a transition that
\* does not continue an archived grant, and the archiving of a second grant
ClosingInputs ==
    {SampleEntry("Active", "Completed"),
     SampleEntry("Completed", "Archived"),
     SampleEntry("Archived", "Archived"),
     SampleEntry("Archived", "Pending"),
     SampleEntry("Pending", "Approved"),
     SecondGrantEntry("Completed", "Archived")}

NextAuditClosing ==
    \/ \E entry \in ClosingInputs : Record(entry)
    \/ Verify
    \/ Entries

---------------------------------------------------------------------------
(* Calls on a definition                                                   *)

\* the strings the definitions are written with
Empty    == <<>>
Blank    == <<" ">>
Draft    == <<"D", "r", "a", "f", "t">>
Review   == <<"R", "e", "v", "i", "e", "w">>
Archived == <<"A", "r", "c", "h", "i", "v", "e", "d">>
Submit   == <<"s", "u", "b", "m", "i", "t">>
StateA   == <<"A">>
StateB   == <<"B">>
StateC   == <<"C">>
Quoted   == <<"i", "f", " ", "\"", "a", "\\", "b", "\"">>

\* the sequences over S of lo to hi elements
SeqsOf(S, lo, hi) == UNION {[1..n -> S] : n \in lo..hi}

\* the invariants of the other four kinds: up to MaxRefs states or transitions,
\* over the declared states and the undeclared state Review
SingleInvariantInputs ==
    {FsmInvariant(kind, states, <<>>) :
        kind \in {"terminal_states", "self_transitions_required"},
        states \in SeqsOf({Draft, Archived, Review}, 0, MaxRefs)}
    \cup
    {FsmInvariant(kind, <<>>, transitions) :
        kind \in {"required_transitions", "forbidden_transitions"},
        transitions \in SeqsOf({FsmTransitionRef(Draft, Archived),
                                FsmTransitionRef(Archived, Draft),
                                FsmTransitionRef(Draft, Draft),
                                FsmTransitionRef(Archived, Archived),
                                FsmTransitionRef(Review, Draft)},
                               0, MaxRefs)}

Validate ==
    /\ outcome' = [op |-> "validate",
                   ret |-> ValidateRun(definition).ret,
                   evaluated |-> ValidateRun(definition).evaluated]
    /\ UNCHANGED <<definition, run>>
    /\ UNCHANGED <<ideaStatus, grantStatus, call, grant, proposal>>
    /\ UNCHANGED <<entries, op, arg, ret, view, prev, accepted>>

ValidateStructure ==
    /\ outcome' = [op |-> "validate_structure",
                   ret |-> FsmDefinition_validate_structure(definition),
                   evaluated |-> 0]
    /\ UNCHANGED <<definition, run>>
    /\ UNCHANGED <<ideaStatus, grantStatus, call, grant, proposal>>
    /\ UNCHANGED <<entries, op, arg, ret, view, prev, accepted>>

ValidateInvariants ==
    /\ outcome' = [op |-> "validate_invariants",
                   ret |-> ValidateInvariantsRun(definition).ret,
                   evaluated |-> ValidateInvariantsRun(definition).evaluated]
    /\ UNCHANGED <<definition, run>>
    /\ UNCHANGED <<ideaStatus, grantStatus, call, grant, proposal>>
    /\ UNCHANGED <<entries, op, arg, ret, view, prev, accepted>>

NextDef ==
    \/ Validate
    \/ ValidateStructure
    \/ ValidateInvariants

\* the definition written to JSON, read back and validated
ValidateReparsed ==
    /\ outcome' = [op |-> "validate_reparsed",
                   ret |-> ValidateReparsedRun(definition).ret,
                   evaluated |-> ValidateReparsedRun(definition).evaluated]
    /\ UNCHANGED <<definition, run>>
    /\ UNCHANGED <<ideaStatus, grantStatus, call, grant, proposal>>
    /\ UNCHANGED <<entries, op, arg, ret, view, prev, accepted>>

NextDefFields ==
    \/ Validate
    \/ ValidateStructure
    \/ ValidateInvariants
    \/ ValidateReparsed

\* Definitions for the structure check: up to MaxStates states out of Draft and
\* Review; up to MaxTransitions transitions, each field well-formed or blank;
\* defaults absent, without an initial state, or naming Draft or Review
\* (declared or not); no invariant, or one that the transitions decide.
InitDefStructure ==
    /\ definition \in
        {FsmDefinition(states, transitions, defaults, invariants) :
            states \in SeqsOf({Draft, Review}, 0, MaxStates),
            transitions \in SeqsOf({FsmTransition(from, to, action) :
                                       from \in {Draft, Blank},
                                       to \in {Review, Blank},
                                       action \in {Submit, Blank}},
                                   0, MaxTransitions),
            defaults \in {<<>>, <<FsmDefaults(<<>>)>>, <<FsmDefaults(<<Draft>>)>>,
                          <<FsmDefaults(<<Review>>)>>},
            invariants \in {<<>>,
                            <<FsmInvariant("terminal_states", <<Draft>>, <<>>)>>,
                            <<FsmInvariant("required_transitions", <<>>,
                                           <<FsmTransitionRef(Draft, Review)>>)>>}}
    /\ outcome = NoOutcome
    /\ ideaStatus = "Draft"
    /\ grantStatus = "Pending"
    /\ call = NoCall
    /\ grant = Grant_default
    /\ proposal = NoProposal
    /\ run = NoRun
    /\ entries = <<>>
    /\ op = "none"
    /\ arg = NoEntry
    /\ ret = "none"
    /\ view = <<>>
    /\ prev = <<>>
    /\ accepted = <<>>

\* Definitions for the cycle search: states A, B, C, every list of 1 to MaxEdges
\* transitions among them (duplicates and self-loops included), and
\* forbidden_cycles over one of the states.
InitDefGraph ==
    /\ definition \in
        {FsmDefinition(<<StateA, StateB, StateC>>, transitions, <<>>,
                       <<FsmInvariant("forbidden_cycles", <<start>>, <<>>)>>) :
            transitions \in SeqsOf({FsmTransition(from, to, Submit) :
                                       from \in {StateA, StateB, StateC},
                                       to \in {StateA, StateB, StateC}},
                                   1, MaxEdges),
            start \in {StateA, StateB, StateC}}
    /\ outcome = NoOutcome
    /\ ideaStatus = "Draft"
    /\ grantStatus = "Pending"
    /\ call = NoCall
    /\ grant = Grant_default
    /\ proposal = NoProposal
    /\ run = NoRun
    /\ entries = <<>>
    /\ op = "none"
    /\ arg = NoEntry
    /\ ret = "none"
    /\ view = <<>>
    /\ prev = <<>>
    /\ accepted = <<>>

\* Definitions for the single invariants: states Draft alone or Draft and
\* Archived, every list of 1 to MaxTransitions transitions between Draft and
\* Archived, and one invariant.
InitDefInvariants ==
    /\ definition \in
        {FsmDefinition(states, transitions, <<>>, <<invariant>>) :
            states \in {<<Draft>>, <<Draft, Archived>>},
            transitions \in SeqsOf({FsmTransition(from, to, Submit) :
                                       from \in {Draft, Archived},
                                       to \in {Draft, Archived}},
                                   1, MaxTransitions),
            invariant \in SingleInvariantInputs}
    /\ outcome = NoOutcome
    /\ ideaStatus = "Draft"
    /\ grantStatus = "Pending"
    /\ call = NoCall
    /\ grant = Grant_default
    /\ proposal = NoProposal
    /\ run = NoRun
    /\ entries = <<>>
    /\ op = "none"
    /\ arg = NoEntry
    /\ ret = "none"
    /\ view = <<>>
    /\ prev = <<>>
    /\ accepted = <<>>

\* Definitions for the invariants over undeclared labels: states Draft alone
\* or Draft and Archived, every list of 1 to MaxTransitions transitions
\* between Draft and Archived, and one invariant of any of the five kinds
\* with up to MaxRefs states or transitions over Draft, Archived and Review,
\* which is never declared.
InitDefUndeclared ==
    /\ definition \in
        {FsmDefinition(states, transitions, <<>>, <<invariant>>) :
            states \in {<<Draft>>, <<Draft, Archived>>},
            transitions \in SeqsOf({FsmTransition(from, to, Submit) :
                                       from \in {Draft, Archived},
                                       to \in {Draft, Archived}},
                                   1, MaxTransitions),
            invariant \in
                {FsmInvariant(kind, labels, <<>>) :
                    kind \in {"terminal_states", "forbidden_cycles",
                              "self_transitions_required"},
                    labels \in SeqsOf({Draft, Archived, Review}, 0, MaxRefs)}
                \cup
                {FsmInvariant(kind, <<>>, refs) :
                    kind \in {"required_transitions", "forbidden_transitions"},
                    refs \in SeqsOf({FsmTransitionRef(Draft, Archived),
                                     FsmTransitionRef(Review, Draft),
                                     FsmTransitionRef(Draft, Review)},
                                    0, MaxRefs)}}
    /\ outcome = NoOutcome
    /\ ideaStatus = "Draft"
    /\ grantStatus = "Pending"
    /\ call = NoCall
    /\ grant = Grant_default
    /\ proposal = NoProposal
    /\ run = NoRun
    /\ entries = <<>>
    /\ op = "none"
    /\ arg = NoEntry
    /\ ret = "none"
    /\ view = <<>>
    /\ prev = <<>>
    /\ accepted = <<>>

\* Definitions for the invariant list: states Draft and Archived, every list of
\* 1 to MaxTransitions transitions out of Draft -> Archived, Archived -> Draft
\* and Draft -> Draft, and every list of up to MaxInvariants invariants, one of
\* each known kind and two of unknown kinds.
InitDefList ==
    /\ definition \in
        {FsmDefinition(<<Draft, Archived>>, transitions, <<>>, invariants) :
            transitions \in SeqsOf({FsmTransition(Draft, Archived, Submit),
                                    FsmTransition(Archived, Draft, Submit),
                                    FsmTransition(Draft, Draft, Submit)},
                                   1, MaxTransitions),
            invariants \in
                SeqsOf({FsmInvariant("terminal_states", <<Archived>>, <<>>),
                        FsmInvariant("required_transitions", <<>>,
                                     <<FsmTransitionRef(Draft, Archived)>>),
                        FsmInvariant("forbidden_transitions", <<>>,
                                     <<FsmTransitionRef(Archived, Draft)>>),
                        FsmInvariant("forbidden_cycles", <<Draft>>, <<>>),
                        FsmInvariant("self_transitions_required", <<Draft>>, <<>>),
                        FsmInvariant("unknown_kind", <<>>, <<>>),
                        FsmInvariant("Terminal_States", <<Archived>>, <<>>)},
                       0, MaxInvariants)}
    /\ outcome = NoOutcome
    /\ ideaStatus = "Draft"
    /\ grantStatus = "Pending"
    /\ call = NoCall
    /\ grant = Grant_default
    /\ proposal = NoProposal
    /\ run = NoRun
    /\ entries = <<>>
    /\ op = "none"
    /\ arg = NoEntry
    /\ ret = "none"
    /\ view = <<>>
    /\ prev = <<>>
    /\ accepted = <<>>

\* Definitions for the optional fields: states Draft and Review; every list of
\* 1 to MaxTransitions transitions Draft -> Review with a well-formed or blank
\* action and with neither guard nor metadata, a blank guard and empty metadata,
\* metadata with a role only, or a guard with quotes and metadata with a
\* description and a role; defaults absent,
\* empty, declared or undeclared; no invariant, or one with or without a
\* description, holding or failing.
InitDefFields ==
    /\ definition \in
        {FsmDefinition(<<Draft, Review>>, transitions, defaults, invariants) :
            transitions \in
                SeqsOf({FsmTransitionFull(Draft, Review, action, optional[1],
                                          optional[2]) :
                           action \in {Submit, Blank},
                           optional \in
                               {<<<<>>, <<>>>>,
                                <<<<Blank>>, <<FsmTransitionMetadata(<<>>, <<>>)>>>>,
                                <<<<>>, <<FsmTransitionMetadata(<<>>, <<Review>>)>>>>,
                                <<<<Quoted>>,
                                  <<FsmTransitionMetadata(<<Quoted>>,
                                                          <<Review>>)>>>>}},
                       1, MaxTransitions),
            defaults \in {<<>>, <<FsmDefaults(<<>>)>>, <<FsmDefaults(<<Draft>>)>>,
                          <<FsmDefaults(<<Archived>>)>>},
            invariants \in
                {<<>>,
                 <<FsmInvariantFull("required_transitions", <<>>,
                                    <<FsmTransitionRef(Draft, Review)>>, <<>>)>>,
                 <<FsmInvariantFull("required_transitions", <<>>,
                                    <<FsmTransitionRef(Draft, Review)>>,
                                    <<Blank>>)>>,
                 <<FsmInvariantFull("terminal_states", <<Draft>>, <<>>,
                                    <<Quoted>>)>>}}
    /\ outcome = NoOutcome
    /\ ideaStatus = "Draft"
    /\ grantStatus = "Pending"
    /\ call = NoCall
    /\ grant = Grant_default
    /\ proposal = NoProposal
    /\ run = NoRun
    /\ entries = <<>>
    /\ op = "none"
    /\ arg = NoEntry
    /\ ret = "none"
    /\ view = <<>>
    /\ prev = <<>>
    /\ accepted = <<>>

\* Definitions for the default initial state: up to MaxStates states out of
\* the empty label, Draft and Review; up to MaxTransitions transitions out of
\* Draft -> Review and Draft -> Draft; defaults absent, without an initial
\* state, or naming the empty label, a blank label or Draft; no invariant or
\* one.
InitDefInitial ==
    /\ definition \in
        {FsmDefinition(states, transitions, defaults, invariants) :
            states \in SeqsOf({Empty, Draft, Review}, 0, MaxStates),
            transitions \in SeqsOf({FsmTransition(Draft, Review, Submit),
                                    FsmTransition(Draft, Draft, Submit)},
                                   0, MaxTransitions),
            defaults \in {<<>>, <<FsmDefaults(<<>>)>>, <<FsmDefaults(<<Empty>>)>>,
                          <<FsmDefaults(<<Blank>>)>>, <<FsmDefaults(<<Draft>>)>>},
            invariants \in {<<>>,
                            <<FsmInvariant("terminal_states", <<Review>>, <<>>)>>}}
    /\ outcome = NoOutcome
    /\ ideaStatus = "Draft"
    /\ grantStatus = "Pending"
    /\ call = NoCall
    /\ grant = Grant_default
    /\ proposal = NoProposal
    /\ run = NoRun
    /\ entries = <<>>
    /\ op = "none"
    /\ arg = NoEntry
    /\ ret = "none"
    /\ view = <<>>
    /\ prev = <<>>
    /\ accepted = <<>>

---------------------------------------------------------------------------
(* validate and verify one loop iteration at a time.  run.pc is the loop   *)
(* the call is in: "structure" (validate_structure), "invariant" (the loop *)
(* of validate_invariants, at invariant run.i), "cycle" (the loop of the   *)
(* forbidden_cycles arm, at state run.j), "walk" (has_cycle_from and the   *)
(* dfs_reaches_start calls below it: run.stack holds one frame per call    *)
(* with the node whose neighbors it loops over and the index k of the next *)
(* neighbor, run.visited is the visited set), "verify" (the loop of        *)
(* verify, at window run.i), "done" (the call returned run.ret).           *)

Frame(node, k) == [node |-> node, k |-> k]

Done(result) == [NoRun EXCEPT !.pc = "done", !.ret = result]

\* Graphs as for the cycle search, to validate; or no definition and a trail of
\* up to MaxTrail recorded entries, to verify.
InitRun ==
    /\ definition \in
        {NoDefinition} \cup
        {FsmDefinition(<<StateA, StateB, StateC>>, transitions, <<>>,
                       <<FsmInvariant("forbidden_cycles", <<start>>, <<>>)>>) :
            transitions \in SeqsOf({FsmTransition(from, to, Submit) :
                                       from \in {StateA, StateB, StateC},
                                       to \in {StateA, StateB, StateC}},
                                   1, MaxEdges),
            start \in {StateA, StateB, StateC}}
    /\ entries \in IF definition = NoDefinition
                   THEN SeqsOf({entry \in ChainInputs :
                                   GrantStatus_validate_transition(
                                       entry.from_state, entry.to_state) = Ok},
                               0, MaxTrail)
                   ELSE {<<>>}
    /\ run = IF definition = NoDefinition
             THEN [NoRun EXCEPT !.pc = "verify", !.i = 1]
             ELSE [NoRun EXCEPT !.pc = "structure"]
    /\ accepted = entries
    /\ prev = <<>>
    /\ op = "none"
    /\ arg = NoEntry
    /\ ret = "none"
    /\ view = <<>>
    /\ outcome = NoOutcome
    /\ ideaStatus = "Draft"
    /\ grantStatus = "Pending"
    /\ call = NoCall
    /\ grant = Grant_default
    /\ proposal = NoProposal

\* validate: validate_structure()?, then validate_invariants with its early
\* return on an empty invariant list
StructureStep ==
    /\ run.pc = "structure"
    /\ run' = IF FsmDefinition_validate_structure(definition) # Ok
              THEN Done(InvalidInput)
              ELSE IF definition.invariants = <<>>
                   THEN Done(Ok)
                   ELSE [run EXCEPT !.pc = "invariant", !.i = 1]
    /\ UNCHANGED <<definition, outcome>>
    /\ UNCHANGED <<ideaStatus, grantStatus, call, grant, proposal>>
    /\ UNCHANGED <<entries, op, arg, ret, view, prev, accepted>>

\* one iteration of `for invariant in &self.invariants`; the forbidden_cycles
\* arm is entered, the other arms are decided in the step
InvariantStep ==
    /\ run.pc = "invariant"
    /\ run' = IF run.i > Len(definition.invariants)
              THEN Done(Ok)
              ELSE IF definition.invariants[run.i].kind = "forbidden_cycles"
                   THEN [run EXCEPT !.pc = "cycle", !.j = 1]
                   ELSE IF InvariantFails(definition, definition.invariants[run.i])
                        THEN Done(InvalidInput)
                        ELSE [run EXCEPT !.i = run.i + 1]
    /\ UNCHANGED <<definition, outcome>>
    /\ UNCHANGED <<ideaStatus, grantStatus, call, grant, proposal>>
    /\ UNCHANGED <<entries, op, arg, ret, view, prev, accepted>>

\* one iteration of `for state in &invariant.states`: has_cycle_from is called
\* on the state, its visited set holding the state
CycleStep ==
    /\ run.pc = "cycle"
    /\ run' = IF run.j > Len(definition.invariants[run.i].states)
              THEN [run EXCEPT !.pc = "invariant", !.i = run.i + 1, !.j = 0]
              ELSE [run EXCEPT
                       !.pc = "walk",
                       !.stack = <<Frame(definition.invariants[run.i].states[run.j], 1)>>,
                       !.visited = {definition.invariants[run.i].states[run.j]}]
    /\ UNCHANGED <<definition, outcome>>
    /\ UNCHANGED <<ideaStatus, grantStatus, call, grant, proposal>>
    /\ UNCHANGED <<entries, op, arg, ret, view, prev, accepted>>

\* the stack with the index of its innermost frame moved to the next neighbor
Advanced(stack) ==
    [stack EXCEPT ![Len(stack)] = Frame(stack[Len(stack)].node,
                                        stack[Len(stack)].k + 1)]

\* a visited neighbor tried again instead of passed over
WalkStep_m1 ==
    /\ run.pc = "walk"
    /\ LET adjacency == Adjacency(definition)
           start == run.stack[1].node
           top == run.stack[Len(run.stack)]
       IN  run' =
             IF top.node \notin DOMAIN adjacency \/ top.k > Len(adjacency[top.node])
             THEN IF Len(run.stack) = 1
                  THEN [run EXCEPT !.pc = "cycle", !.j = run.j + 1,
                                   !.stack = <<>>, !.visited = {}]
                  ELSE [run EXCEPT !.stack = SubSeq(run.stack, 1, Len(run.stack) - 1)]
             ELSE LET neighbor == adjacency[top.node][top.k] IN
                  IF neighbor = start
                  THEN Done(InvalidInput)
                  ELSE IF Len(run.stack) = 1
                       THEN [run EXCEPT
                                !.stack = Append(Advanced(run.stack), Frame(neighbor, 1))]
                       ELSE IF neighbor \notin run.visited
                            THEN [run EXCEPT
                                     !.visited = run.visited \cup {neighbor},
                                     !.stack = Append(Advanced(run.stack),
                                                      Frame(neighbor, 1))]
                            ELSE run
    /\ UNCHANGED <<definition, outcome>>
    /\ UNCHANGED <<ideaStatus, grantStatus, call, grant, proposal>>
    /\ UNCHANGED <<entries, op, arg, ret, view, prev, accepted>>

\* one iteration of `for neighbor in neighbors` in the innermost call: the
\* bottom frame is has_cycle_from, which calls dfs_reaches_start on every
\* neighbor; the frames above are dfs_reaches_start, which calls itself on the
\* neighbors that visited.insert finds new.  A loop that ends returns false to
\* its caller; a neighbor equal to start returns true through every frame.
WalkStep ==
    /\ run.pc = "walk"
    /\ LET adjacency == Adjacency(definition)
           start == run.stack[1].node
           top == run.stack[Len(run.stack)]
       IN  run' =
             IF top.node \notin DOMAIN adjacency \/ top.k > Len(adjacency[top.node])
             THEN IF Len(run.stack) = 1
                  THEN [run EXCEPT !.pc = "cycle", !.j = run.j + 1,
                                   !.stack = <<>>, !.visited = {}]
                  ELSE [run EXCEPT !.stack = SubSeq(run.stack, 1, Len(run.stack) - 1)]
             ELSE LET neighbor == adjacency[top.node][top.k] IN
                  IF neighbor = start
                  THEN Done(InvalidInput)
                  ELSE IF Len(run.stack) = 1
                       THEN [run EXCEPT
                                !.stack = Append(Advanced(run.stack), Frame(neighbor, 1))]
                       ELSE IF neighbor \notin run.visited
                            THEN [run EXCEPT
                                     !.visited = run.visited \cup {neighbor},
                                     !.stack = Append(Advanced(run.stack),
                                                      Frame(neighbor, 1))]
                            ELSE [run EXCEPT !.stack = Advanced(run.stack)]
    /\ UNCHANGED <<definition, outcome>>
    /\ UNCHANGED <<ideaStatus, grantStatus, call, grant, proposal>>
    /\ UNCHANGED <<entries, op, arg, ret, view, prev, accepted>>

\* one iteration of `for window in self.entries.windows(2)`
VerifyStep ==
    /\ run.pc = "verify"
    /\ run' = IF run.i + 1 > Len(entries)
              THEN Done(Ok)
              ELSE IF entries[run.i].grant_id # entries[run.i + 1].grant_id
                   THEN [run EXCEPT !.i = run.i + 1]
                   ELSE IF entries[run.i].to_state # entries[run.i + 1].from_state
                        THEN Done(InvalidStateTransition)
                        ELSE [run EXCEPT !.i = run.i + 1]
    /\ UNCHANGED <<definition, outcome>>
    /\ UNCHANGED <<ideaStatus, grantStatus, call, grant, proposal>>
    /\ UNCHANGED <<entries, op, arg, ret, view, prev, accepted>>

NextRun ==
    \/ StructureStep
    \/ InvariantStep
    \/ CycleStep
    \/ WalkStep
    \/ VerifyStep

---------------------------------------------------------------------------
(* The operations of the core that return a Result, together.  The tables, *)
(* the trail and a definition share no state, so a behaviour calls one of  *)
(* them: the receiver is a definition when the behaviour starts with one,  *)
(* and otherwise the tables until a trail call is made or the trail until  *)
(* a table call is made.                                                   *)

\* no definition and any status of the two tables, or a definition of up to
\* MaxStates states and MaxTransitions transitions with or without defaults
\* and an invariant
InitCore ==
    /\ definition \in
        {NoDefinition} \cup
        {FsmDefinition(states, transitions, defaults, invariants) :
            states \in SeqsOf({Draft, Review}, 0, MaxStates),
            transitions \in SeqsOf({FsmTransition(Draft, Review, Submit),
                                    FsmTransition(Draft, Review, Blank)},
                                   0, MaxTransitions),
            defaults \in {<<>>, <<FsmDefaults(<<Draft>>)>>,
                          <<FsmDefaults(<<Archived>>)>>},
            invariants \in {<<>>,
                            <<FsmInvariant("unknown_kind", <<>>, <<>>)>>,
                            <<FsmInvariant("terminal_states", <<Review>>, <<>>)>>,
                            <<FsmInvariant("terminal_states", <<Draft>>, <<>>)>>}}
    /\ ideaStatus \in IF definition = NoDefinition THEN IdeaStates ELSE {"Draft"}
    /\ grantStatus \in IF definition = NoDefinition THEN GrantStates ELSE {"Pending"}
    /\ call = NoCall
    /\ grant = Grant_default
    /\ proposal = NoProposal
    /\ run = NoRun
    /\ entries = <<>>
    /\ op = "none"
    /\ arg = NoEntry
    /\ ret = "none"
    /\ view = <<>>
    /\ prev = <<>>
    /\ accepted = <<>>
    /\ outcome = NoOutcome

\* the receiver is the tables: no definition, no trail call made
OnTables == definition = NoDefinition /\ op = "none"

\* the receiver is the trail of a grant: no definition, no table call made
OnTrail ==
    /\ definition = NoDefinition
    /\ call = NoCall
    /\ ideaStatus = "Draft"
    /\ grantStatus = "Pending"

OnDefinition == definition # NoDefinition

CoreIdeaValidateTransition(target) == OnTables /\ IdeaValidateTransition(target)

CoreGrantValidateTransition(target) == OnTables /\ GrantValidateTransition(target)

CoreRecord(entry) == OnTrail /\ Record(entry)

CoreVerify == OnTrail /\ Verify

CoreValidate == OnDefinition /\ Validate

CoreValidateStructure == OnDefinition /\ ValidateStructure

CoreValidateInvariants == OnDefinition /\ ValidateInvariants

NextCore ==
    \/ \E target \in IdeaStates : CoreIdeaValidateTransition(target)
    \/ \E target \in GrantStates : CoreGrantValidateTransition(target)
    \/ \E entry \in ChainInputs : CoreRecord(entry)
    \/ CoreVerify
    \/ CoreValidate
    \/ CoreValidateStructure
    \/ CoreValidateInvariants

---------------------------------------------------------------------------
(* Specifications                                                          *)

SpecFsm == InitFsm /\ [][NextFsm]_vars

SpecAudit == InitAudit /\ [][NextAudit]_vars

SpecAuditChain == InitAudit /\ [][NextAuditChain]_vars

SpecDefStructure == InitDefStructure /\ [][NextDef]_vars

SpecDefGraph == InitDefGraph /\ [][NextDef]_vars

SpecDefInvariants == InitDefInvariants /\ [][NextDef]_vars

SpecDefList == InitDefList /\ [][NextDef]_vars

SpecDefFields == InitDefFields /\ [][NextDefFields]_vars

SpecCore == InitCore /\ [][NextCore]_vars

\* a call in progress is not suspended: nothing but its own loop decides when
\* it goes on, so a step that can be taken is taken
SpecRun == InitRun /\ [][NextRun]_vars /\ WF_vars(NextRun)

SpecDefInitial == InitDefInitial /\ [][NextDef]_vars

SpecGrant == InitGrant /\ [][NextGrant]_vars

SpecIdea == InitIdea /\ [][NextIdea]_vars

SpecGrantWalk == InitGrantWalk /\ [][NextGrantWalk]_vars

SpecAuditClosing == InitAudit /\ [][NextAuditClosing]_vars

SpecDefUndeclared == InitDefUndeclared /\ [][NextDef]_vars

SpecProposal == InitProposal /\ [][NextProposal]_vars

---------------------------------------------------------------------------
(* Properties of the fixed transition tables (checked under SpecFsm)       *)

Range(seq) == {seq[i] : i \in 1..Len(seq)}

\* the grant lifecycle as the specification lists it
GrantLifecycleRow(s) ==
    CASE s = "Pending"   -> {"Approved", "Rejected"}
      [] s = "Approved"  -> {"Active", "Suspended"}
      [] s = "Active"    -> {"Completed", "Cancelled", "Suspended", "Expired"}
      [] s = "Suspended" -> {"Active", "Cancelled"}
      [] s = "Completed" -> {"Archived"}
      [] s = "Cancelled" -> {"Archived"}
      [] s = "Rejected"  -> {"Archived"}
      [] s = "Expired"   -> {"Archived"}
      [] s = "Archived"  -> {}

\* the idea lifecycle as the specification lists it
IdeaLifecycleRow(s) ==
    CASE s = "Draft"             -> {"UnderReview", "Voting"}
      [] s = "UnderReview"       -> {"Approved", "Rejected", "Voting"}
      [] s = "Voting"            -> {"Approved", "Rejected"}
      [] s = "Approved"          -> {"InProgress", "Paused"}
      [] s = "Rejected"          -> {"Archived", "Resubmitted"}
      [] s = "InProgress"        -> {"Completed", "Paused", "Expired"}
      [] s = "Paused"            -> {"InProgress", "Archived"}
      [] s = "Completed"         -> {"Executed", "Archived"}
      [] s = "Executed"          -> {"Commercialization", "Archived"}
      [] s = "Commercialization" -> {"Archived"}
      [] s = "Archived"          -> {"Resubmitted"}
      [] s = "Resubmitted"       -> {"UnderReview", "Voting"}
      [] s = "Expired"           -> {"Archived"}

\* the states a call on the idea / grant table lists as successors of s
IdeaSuccessors(s) == Range(IdeaStatus_next_states(s))
GrantSuccessors(s) == Range(GrantStatus_next_states(s))

\* C1: for both entity kinds and every pair (s, t), can_transition_to(s, t) is
\* true exactly when t = s or t is in next_states(s), and validate_transition(s, t)
\* returns Ok exactly when can_transition_to(s, t) is true and otherwise returns
\* Err(InvalidStateTransition).
C1_TransitionPredicate ==
    /\ (call.op = "can_transition_to" /\ call.kind = "idea") =>
           (call.can <=> (call.target = call.self
                             \/ call.target \in IdeaSuccessors(call.self)))
    /\ (call.op = "can_transition_to" /\ call.kind = "grant") =>
           (call.can <=> (call.target = call.self
                             \/ call.target \in GrantSuccessors(call.self)))
    /\ (call.op = "validate_transition" /\ call.kind = "idea") =>
           /\ call.res \in {Ok, InvalidStateTransition}
           /\ call.res = Ok <=> IdeaStatus_can_transition_to(call.self, call.target)
           /\ call.res = Ok <=> (call.target = call.self
                                    \/ call.target \in IdeaSuccessors(call.self))
    /\ (call.op = "validate_transition" /\ call.kind = "grant") =>
           /\ call.res \in {Ok, InvalidStateTransition}
           /\ call.res = Ok <=> GrantStatus_can_transition_to(call.self, call.target)
           /\ call.res = Ok <=> (call.target = call.self
                                    \/ call.target \in GrantSuccessors(call.self))

\* C1 witness: a grant transition outside the table was rejected by
\* validate_transition (Pending -> Active).
C1_Witness ==
    /\ call.op = "validate_transition"
    /\ call.kind = "grant"
    /\ call.self = "Pending"
    /\ call.target = "Active"
    /\ call.res = InvalidStateTransition

\* C2: GrantStatus::next_states is total over the 9 grant states and returns
\* exactly the rows of the grant lifecycle, no row holding any other state.
C2_GrantTable ==
    /\ Cardinality(GrantStates) = 9
    /\ \A s \in GrantStates : GrantSuccessors(s) = GrantLifecycleRow(s)
    /\ (call.op = "next_states" /\ call.kind = "grant") =>
           /\ Range(call.next) = GrantLifecycleRow(call.self)
           /\ Len(call.next) = Cardinality(GrantLifecycleRow(call.self))

\* C2 witness: next_states was called on Active and returned its four successors.
C2_Witness ==
    /\ call.op = "next_states"
    /\ call.kind = "grant"
    /\ call.self = "Active"
    /\ Len(call.next) = 4

\* C3: IdeaStatus::next_states is total over the 13 idea states and returns
\* exactly the rows of the idea lifecycle, no row holding any other state and no
\* row empty.
C3_IdeaTable ==
    /\ Cardinality(IdeaStates) = 13
    /\ \A s \in IdeaStates :
           /\ IdeaSuccessors(s) = IdeaLifecycleRow(s)
           /\ IdeaSuccessors(s) # {}
    /\ (call.op = "next_states" /\ call.kind = "idea") =>
           /\ Range(call.next) = IdeaLifecycleRow(call.self)
           /\ Len(call.next) = Cardinality(IdeaLifecycleRow(call.self))
           /\ Len(call.next) > 0

\* C3 witness: next_states was called on Archived and returned Resubmitted alone.
C3_Witness ==
    /\ call.op = "next_states"
    /\ call.kind = "idea"
    /\ call.self = "Archived"
    /\ call.next = <<"Resubmitted">>

\* C4: for every state s of either table, the terminal grant state Archived
\* included, can_transition_to(s, s) is true and validate_transition(s, s) is Ok,
\* although no table row lists its own state.
C4_SelfTransition ==
    /\ (call.op = "can_transition_to" /\ call.target = call.self) => call.can
    /\ (call.op = "validate_transition" /\ call.target = call.self) => call.res = Ok
    /\ (call.op = "next_states") => ~Contains(call.next, call.self)

\* C4 witness: validate_transition(Archived, Archived) on the grant table was Ok.
C4_Witness ==
    /\ call.op = "validate_transition"
    /\ call.kind = "grant"
    /\ call.self = "Archived"
    /\ call.target = "Archived"
    /\ call.res = Ok

\* C5: in the grant table Archived is terminal: next_states(Archived) is empty,
\* and for every grant state x other than Archived can_transition_to(Archived, x)
\* is false and validate_transition(Archived, x) is Err(InvalidStateTransition).
C5_ArchivedTerminal ==
    (call.kind = "grant" /\ call.self = "Archived") =>
        /\ call.op = "next_states" => call.next = <<>>
        /\ (call.op = "can_transition_to" /\ call.target # "Archived") => ~call.can
        /\ (call.op = "validate_transition" /\ call.target # "Archived") =>
               call.res = InvalidStateTransition

\* C5 witness: validate_transition(Archived, Pending) on the grant table failed.
C5_Witness ==
    /\ call.op = "validate_transition"
    /\ call.kind = "grant"
    /\ call.self = "Archived"
    /\ call.target = "Pending"
    /\ call.res = InvalidStateTransition

---------------------------------------------------------------------------
(* Properties of the audit trail (checked under SpecAudit)                 *)

\* from_state -> to_state is an edge of the grant lifecycle or a self-transition
Permitted(entry) ==
    \/ entry.to_state = entry.from_state
    \/ entry.to_state \in GrantLifecycleRow(entry.from_state)

IsPrefix(a, b) ==
    /\ Len(a) <= Len(b)
    /\ \A i \in 1..Len(a) : a[i] = b[i]

\* C6: record(entry) on an entry whose from_state -> to_state is permitted by the
\* grant table (or is a self-transition) returns Ok, and the trail afterwards is
\* the previous trail with that entry appended as its last element, every field
\* of the entry preserved.
C6_RecordPermitted ==
    (op = "record" /\ Permitted(arg)) =>
        /\ ret = Ok
        /\ Len(entries) = Len(prev) + 1
        /\ \A i \in 1..Len(prev) : entries[i] = prev[i]
        /\ LET last == entries[Len(entries)] IN
               /\ last.grant_id = arg.grant_id
               /\ last.actor = arg.actor
               /\ last.from_state = arg.from_state
               /\ last.to_state = arg.to_state
               /\ last.action = arg.action
               /\ last.timestamp = arg.timestamp
               /\ last.metadata = arg.metadata

\* C6 witness: a table edge of grant 2 was recorded after an entry of grant 1.
C6_Witness ==
    /\ op = "record"
    /\ ret = Ok
    /\ arg = SecondGrantEntry("Pending", "Approved")
    /\ Len(prev) = 1
    /\ prev[1].grant_id = 1
    /\ Len(entries) = 2

\* C7: record(entry) on an entry whose from_state -> to_state is not permitted
\* returns Err(InvalidStateTransition) and leaves the trail unchanged: the same
\* length and the same entries in the same order as before the call.
C7_RecordRejected ==
    (op = "record" /\ ~Permitted(arg)) =>
        /\ ret = InvalidStateTransition
        /\ Len(entries) = Len(prev)
        /\ \A i \in 1..Len(prev) : entries[i] = prev[i]

\* C7 witness: the backward transition Approved -> Pending was rejected on a
\* trail that already held two entries.
C7_Witness ==
    /\ op = "record"
    /\ arg = SampleEntry("Approved", "Pending")
    /\ ret = InvalidStateTransition
    /\ Len(prev) = 2
    /\ Len(entries) = 2

\* adjacent entries i, i+1 are of different grants or chain to_state = from_state
Continuous(trail, i) ==
    \/ trail[i].grant_id # trail[i + 1].grant_id
    \/ trail[i].to_state = trail[i + 1].from_state

\* C8: verify() returns Ok exactly when every adjacent pair entry[i], entry[i+1]
\* has different grant ids or entry[i].to_state = entry[i+1].from_state, and
\* otherwise Err(InvalidStateTransition); an empty trail and a one-entry trail
\* verify Ok.
C8_VerifyAdjacentPairs ==
    (op = "verify") =>
        /\ ret \in {Ok, InvalidStateTransition}
        /\ ret = Ok <=> \A i \in 1..(Len(entries) - 1) : Continuous(entries, i)
        /\ Len(entries) <= 1 => ret = Ok

\* C8 witness: verify failed on a trail whose first pair is of two different
\* grants (skipped) and whose second pair, of one grant, breaks the chain.
C8_Witness ==
    /\ op = "verify"
    /\ ret = InvalidStateTransition
    /\ Len(entries) = 3
    /\ entries[1].grant_id # entries[2].grant_id
    /\ entries[2].grant_id = entries[3].grant_id
    /\ entries[2].to_state # entries[3].from_state

\* C9: the trail is append-only. After any sequence of record, verify and entries
\* calls the trail is the sequence of the entries whose record call returned Ok,
\* in call order, and that is what entries() returns; the trail before a call is
\* a prefix of the trail after it (so every earlier content is a prefix of every
\* later one); verify, entries and a failed record leave the trail as it was.
C9_AppendOnly ==
    /\ entries = accepted
    /\ IsPrefix(prev, entries)
    /\ ~(op = "record" /\ ret = Ok) => entries = prev
    /\ op = "entries" => view = accepted

\* C9 witness: entries() returned a two-entry trail.
C9_Witness ==
    /\ op = "entries"
    /\ Len(view) = 2
    /\ view[1] # view[2]

\* C10: in every trail reachable from AuditTrail::new() through record calls,
\* every stored entry satisfies can_transition_to(from_state, to_state) on the
\* grant table.
C10_OnlyLegalEntries ==
    \A i \in 1..Len(entries) :
        GrantStatus_can_transition_to(entries[i].from_state, entries[i].to_state)

\* C10 witness: the trail holds two entries, a table edge among them, after a
\* record call was rejected.
C10_Witness ==
    /\ op = "record"
    /\ ret = InvalidStateTransition
    /\ Len(entries) = 2
    /\ \E i \in 1..Len(entries) : entries[i].from_state # entries[i].to_state

---------------------------------------------------------------------------
(* Properties of the recorded scenarios (checked under SpecAuditChain)     *)

PendingToApproved == AuditEntry_new(1, 0, "Pending", "Approved", "test", 1000, "metadata")
ApprovedToActive  == AuditEntry_new(1, 0, "Approved", "Active", "test", 1100, "metadata")
ActiveToCompleted == AuditEntry_new(1, 0, "Active", "Completed", "test", 1100, "metadata")

\* two adjacent entries of one grant that do not chain
ChainGap(trail) == \E i \in 1..(Len(trail) - 1) : ~Continuous(trail, i)

\* C11: record does not enforce chain continuity, verify does. A permitted entry
\* that does not continue the last entry of its grant is still accepted by
\* record; verify() on a trail with two adjacent entries of one grant that do not
\* chain returns Err(InvalidStateTransition), as on (1, Pending -> Approved),
\* (1, Active -> Completed); the continuous trail (1, Pending -> Approved),
\* (1, Approved -> Active) verifies Ok.
C11_RecordAcceptsGapVerifyRejects ==
    /\ (/\ op = "record"
        /\ Permitted(arg)
        /\ prev # <<>>
        /\ prev[Len(prev)].grant_id = arg.grant_id
        /\ prev[Len(prev)].to_state # arg.from_state) =>
           (ret = Ok /\ entries = Append(prev, arg) /\ ChainGap(entries))
    /\ (op = "verify" /\ ChainGap(entries)) => ret = InvalidStateTransition
    /\ (op = "verify" /\ entries = <<PendingToApproved, ActiveToCompleted>>) =>
           ret = InvalidStateTransition
    /\ (op = "verify" /\ entries = <<PendingToApproved, ApprovedToActive>>) =>
           ret = Ok

\* C11 witness: the trail (1, Pending -> Approved), (1, Active -> Completed) was
\* built by two accepted record calls and verify() on it failed.
C11_Witness ==
    /\ op = "verify"
    /\ entries = <<PendingToApproved, ActiveToCompleted>>
    /\ accepted = entries
    /\ ret = InvalidStateTransition

\* two entries of one grant, separated by entries of other grants only, that do
\* not chain
SeparatedGap(trail) ==
    \E j \in 1..Len(trail) : \E i \in 1..(j - 2) :
        /\ trail[i].grant_id = trail[j].grant_id
        /\ \A k \in (i + 1)..(j - 1) : trail[k].grant_id # trail[j].grant_id
        /\ trail[i].to_state # trail[j].from_state

\* C12: verify checks only entries that are consecutive in the trail. A trail
\* whose adjacent pairs all pass verifies Ok whatever the entries of one grant
\* that another grant's entry separates, as (1, Pending -> Approved),
\* (2, Pending -> Approved), (1, Active -> Completed) does.
C12_SeparatedEntriesUnchecked ==
    /\ (op = "verify" /\ ~ChainGap(entries)) => ret = Ok
    /\ (/\ op = "verify"
        /\ entries = <<PendingToApproved, SecondGrantEntry("Pending", "Approved"),
                       ActiveToCompleted>>) =>
           (SeparatedGap(entries) /\ ret = Ok)

\* C12 witness: verify() returned Ok on the trail (1, Pending -> Approved),
\* (2, Pending -> Approved), (1, Active -> Completed).
C12_Witness ==
    /\ op = "verify"
    /\ entries = <<PendingToApproved, SecondGrantEntry("Pending", "Approved"),
                   ActiveToCompleted>>
    /\ SeparatedGap(entries)
    /\ ret = Ok

---------------------------------------------------------------------------
(* Properties of validate and validate_structure (checked under            *)
(* SpecDefStructure)                                                       *)

\* C13: validate() returns Ok exactly when validate_structure() returns Ok and
\* validate_invariants() returns Ok; it runs validate_structure first and
\* evaluates no invariant when the structure validation fails.
C13_ValidateStructureThenInvariants ==
    (outcome.op = "validate") =>
        /\ outcome.ret \in {Ok, InvalidInput}
        /\ outcome.ret = Ok <=>
               /\ FsmDefinition_validate_structure(definition) = Ok
               /\ FsmDefinition_validate_invariants(definition) = Ok
        /\ FsmDefinition_validate_structure(definition) # Ok =>
               outcome.evaluated = 0
        /\ FsmDefinition_validate_structure(definition) = Ok =>
               outcome.evaluated = Len(definition.invariants)
                   \/ (outcome.ret = InvalidInput /\ outcome.evaluated > 0)

\* C13 witness: validate() failed on the structure of a definition whose
\* invariant would fail too, and evaluated no invariant.
C13_Witness ==
    /\ outcome.op = "validate"
    /\ outcome.ret = InvalidInput
    /\ outcome.evaluated = 0
    /\ FsmDefinition_validate_structure(definition) = InvalidInput
    /\ definition.invariants # <<>>
    /\ FsmDefinition_validate_invariants(definition) = InvalidInput

\* a string with a character that is not whitespace
NonBlank(str) == \E i \in 1..Len(str) : str[i] \notin Whitespace

Declared(d, label) == \E i \in 1..Len(d.states) : d.states[i] = label

\* the conditions of a well-formed definition
StructureOk(d) ==
    /\ Len(d.states) > 0
    /\ Len(d.transitions) > 0
    /\ \A i \in 1..Len(d.transitions) :
           /\ NonBlank(d.transitions[i].from)
           /\ NonBlank(d.transitions[i].to)
           /\ NonBlank(d.transitions[i].action)
           /\ Declared(d, d.transitions[i].from)
           /\ Declared(d, d.transitions[i].to)
    /\ (d.defaults # <<>> /\ d.defaults[1].initial_state # <<>>) =>
           Declared(d, d.defaults[1].initial_state[1])

\* C14: validate_structure() returns Ok exactly when the state list is
\* non-empty, the transition list is non-empty, every transition's from, to and
\* action are non-empty after trimming whitespace, every transition's from and to
\* are declared states and the default initial state, if present, is a declared
\* state; in every other case it returns Err(InvalidInput).
C14_ValidateStructure ==
    (outcome.op = "validate_structure") =>
        /\ outcome.ret \in {Ok, InvalidInput}
        /\ outcome.ret = Ok <=> StructureOk(definition)

\* C14 witness: validate_structure() failed on a definition whose only fault is
\* the whitespace action of its second transition.
C14_Witness ==
    /\ outcome.op = "validate_structure"
    /\ outcome.ret = InvalidInput
    /\ definition.states = <<Draft, Review>>
    /\ definition.transitions =
           <<FsmTransition(Draft, Review, Submit), FsmTransition(Draft, Review, Blank)>>
    /\ definition.defaults = <<FsmDefaults(<<Draft>>)>>

---------------------------------------------------------------------------
(* Properties of the forbidden_cycles invariant (checked under             *)
(* SpecDefGraph)                                                           *)

\* a declared transition from a to b
Edge(d, a, b) ==
    \E i \in 1..Len(d.transitions) :
        d.transitions[i].from = a /\ d.transitions[i].to = b

\* s is reachable from itself by a path of one or more declared transitions
\* (a shortest such path visits no state twice, so Len(d.states) steps suffice)
SelfReachable(d, s) ==
    \E n \in 1..Len(d.states) :
        \E path \in [0..n -> Range(d.states)] :
            /\ path[0] = s
            /\ path[n] = s
            /\ \A k \in 1..n : Edge(d, path[k - 1], path[k])

\* validate_invariants was called on a definition whose one invariant is of the
\* kind forbidden_cycles
ForbiddenCyclesCall ==
    /\ outcome.op = "validate_invariants"
    /\ Len(definition.invariants) = 1
    /\ definition.invariants[1].kind = "forbidden_cycles"

\* C15: a forbidden_cycles invariant fails for a named state s exactly when s is
\* reachable from itself by a path of one or more declared transitions, a
\* self-loop included; the depth-first walk agrees with this reachability
\* relation on every transition graph, duplicates and cycles away from s included.
C15_ForbiddenCyclesIsSelfReachability ==
    ForbiddenCyclesCall =>
        /\ outcome.ret \in {Ok, InvalidInput}
        /\ outcome.ret = InvalidInput <=>
               \E i \in 1..Len(definition.invariants[1].states) :
                   SelfReachable(definition, definition.invariants[1].states[i])

\* C15 witness: the cycle A -> B -> A is found although the walk from A first
\* enters the dead end B -> C.
C15_Witness ==
    /\ ForbiddenCyclesCall
    /\ definition.invariants[1].states = <<StateA>>
    /\ definition.transitions = <<FsmTransition(StateA, StateB, Submit),
                                  FsmTransition(StateB, StateC, Submit),
                                  FsmTransition(StateB, StateA, Submit)>>
    /\ outcome.ret = InvalidInput

\* C16: with transitions A -> B and B -> A, forbidden_cycles over [A] fails and
\* over [B] fails, but over a state C with no path back to itself it succeeds,
\* also when C can reach the cycle of A and B without being on it.
C16_ForbiddenCyclesStartSpecific ==
    (/\ ForbiddenCyclesCall
     /\ Edge(definition, StateA, StateB)
     /\ Edge(definition, StateB, StateA)) =>
        /\ definition.invariants[1].states \in {<<StateA>>, <<StateB>>} =>
               outcome.ret = InvalidInput
        /\ (/\ definition.invariants[1].states = <<StateC>>
            /\ ~SelfReachable(definition, StateC)) => outcome.ret = Ok

\* C16 witness: C reaches the cycle of A and B, is not on it, and forbidden_cycles
\* over [C] is Ok.
C16_Witness ==
    /\ ForbiddenCyclesCall
    /\ definition.invariants[1].states = <<StateC>>
    /\ definition.transitions = <<FsmTransition(StateC, StateA, Submit),
                                  FsmTransition(StateA, StateB, Submit),
                                  FsmTransition(StateB, StateA, Submit)>>
    /\ outcome.ret = Ok

---------------------------------------------------------------------------
(* Properties of the invariants decided by the transition list (checked    *)
(* under SpecDefInvariants)                                                *)

\* validate_invariants was called on a definition whose one invariant is of the
\* given kind
InvariantCall(kind) ==
    /\ outcome.op = "validate_invariants"
    /\ Len(definition.invariants) = 1
    /\ definition.invariants[1].kind = kind

DraftToArchived == FsmTransition(Draft, Archived, Submit)

ArchivedToDraft == FsmTransition(Archived, Draft, Submit)

\* C17: a terminal_states invariant fails exactly when some state it names is
\* the from of a declared transition, a self-loop included; with states
\* [Draft, Archived] and transition Draft -> Archived, terminal_states over
\* [Archived] is Ok, and adding Archived -> Draft makes it Err(InvalidInput).
C17_TerminalStates ==
    InvariantCall("terminal_states") =>
        /\ outcome.ret = InvalidInput <=>
               \E i \in 1..Len(definition.invariants[1].states) :
                   \E j \in 1..Len(definition.transitions) :
                       definition.transitions[j].from =
                           definition.invariants[1].states[i]
        /\ (/\ definition.states = <<Draft, Archived>>
            /\ definition.invariants[1].states = <<Archived>>) =>
               /\ definition.transitions = <<DraftToArchived>> => outcome.ret = Ok
               /\ definition.transitions = <<DraftToArchived, ArchivedToDraft>> =>
                      outcome.ret = InvalidInput

\* C17 witness: terminal_states over [Archived] failed once Archived -> Draft
\* was declared after Draft -> Archived.
C17_Witness ==
    /\ InvariantCall("terminal_states")
    /\ definition.states = <<Draft, Archived>>
    /\ definition.invariants[1].states = <<Archived>>
    /\ definition.transitions = <<DraftToArchived, ArchivedToDraft>>
    /\ outcome.ret = InvalidInput

\* C18: a required_transitions invariant fails exactly when at least one pair it
\* lists is not the (from, to) of any declared transition, wherever the missing
\* pair stands in the invariant's list.
C18_RequiredTransitions ==
    InvariantCall("required_transitions") =>
        (outcome.ret = InvalidInput <=>
            \E i \in 1..Len(definition.invariants[1].transitions) :
                ~Edge(definition, definition.invariants[1].transitions[i].from,
                      definition.invariants[1].transitions[i].to))

\* C18 witness: the first listed pair is declared, the second is missing, and
\* the invariant failed.
C18_Witness ==
    /\ InvariantCall("required_transitions")
    /\ definition.transitions = <<DraftToArchived>>
    /\ definition.invariants[1].transitions =
           <<FsmTransitionRef(Draft, Archived), FsmTransitionRef(Archived, Draft)>>
    /\ outcome.ret = InvalidInput

\* C19: a forbidden_transitions invariant fails exactly when at least one pair it
\* lists is the (from, to) of a declared transition; pairs that are not declared
\* transitions, pairs over undeclared states included, do not make it fail.
C19_ForbiddenTransitions ==
    InvariantCall("forbidden_transitions") =>
        (outcome.ret = InvalidInput <=>
            \E i \in 1..Len(definition.invariants[1].transitions) :
                Edge(definition, definition.invariants[1].transitions[i].from,
                     definition.invariants[1].transitions[i].to))

\* C19 witness: both listed pairs are over a state that is not declared, and the
\* invariant is Ok.
C19_Witness ==
    /\ InvariantCall("forbidden_transitions")
    /\ definition.states = <<Draft>>
    /\ definition.transitions = <<FsmTransition(Draft, Draft, Submit)>>
    /\ definition.invariants[1].transitions =
           <<FsmTransitionRef(Review, Draft), FsmTransitionRef(Archived, Draft)>>
    /\ outcome.ret = Ok

\* the scope of a self_transitions_required invariant
SelfTransitionScope(d) ==
    IF d.invariants[1].states = <<>>
    THEN Range(d.states)
    ELSE Range(d.invariants[1].states)

\* the definition with its self_transitions_required invariant listing every
\* declared state
AllStatesListed(d) ==
    FsmDefinition(d.states, d.transitions, d.defaults,
                  <<FsmInvariant("self_transitions_required", d.states, <<>>)>>)

\* C20: a self_transitions_required invariant fails exactly when some state s in
\* its scope has no declared transition s -> s, the scope being the invariant's
\* state list or, when that list is empty, every declared state; the invariant
\* with an empty list gives the result of the invariant listing all declared
\* states.
C20_SelfTransitionsRequired ==
    InvariantCall("self_transitions_required") =>
        /\ outcome.ret = InvalidInput <=>
               \E state \in SelfTransitionScope(definition) :
                   ~Edge(definition, state, state)
        /\ definition.invariants[1].states = <<>> =>
               outcome.ret =
                   FsmDefinition_validate_invariants(AllStatesListed(definition))

\* C20 witness: with an empty list the invariant failed for the declared state
\* Archived, which has no self-transition, although Draft has one.
C20_Witness ==
    /\ InvariantCall("self_transitions_required")
    /\ definition.invariants[1].states = <<>>
    /\ definition.states = <<Draft, Archived>>
    /\ definition.transitions = <<FsmTransition(Draft, Draft, Submit)>>
    /\ outcome.ret = InvalidInput

---------------------------------------------------------------------------
(* Properties of the invariant list (checked under SpecDefList)            *)

KnownKinds ==
    {"terminal_states", "required_transitions", "forbidden_transitions",
     "forbidden_cycles", "self_transitions_required"}

\* C21: a definition containing an invariant whose kind is not exactly one of
\* the five known kinds fails validate_invariants with Err(InvalidInput),
\* wherever that invariant stands in the list and whatever the others are.
C21_UnknownKindFails ==
    (/\ outcome.op = "validate_invariants"
     /\ \E i \in 1..Len(definition.invariants) :
            definition.invariants[i].kind \notin KnownKinds) =>
        outcome.ret = InvalidInput

\* C21 witness: the invariant of unknown kind stands last, after two invariants
\* that hold, and validate_invariants failed on reaching it.
C21_Witness ==
    /\ outcome.op = "validate_invariants"
    /\ Len(definition.invariants) = MaxInvariants
    /\ \A i \in 1..(MaxInvariants - 1) :
           /\ definition.invariants[i].kind \in KnownKinds
           /\ ~InvariantFails(definition, definition.invariants[i])
    /\ definition.invariants[MaxInvariants].kind = "Terminal_States"
    /\ outcome.ret = InvalidInput
    /\ outcome.evaluated = MaxInvariants

\* the definition d with its invariants in the order order[1], order[2], ...
Reordered(d, order) ==
    FsmDefinition(d.states, d.transitions, d.defaults,
                  [i \in 1..Len(d.invariants) |-> d.invariants[order[i]]])

\* the definition d with its i-th invariant alone
WithOnly(d, i) ==
    FsmDefinition(d.states, d.transitions, d.defaults, <<d.invariants[i]>>)

\* C22: the result of validate_invariants does not depend on the order of the
\* invariant list: every permutation of the invariants gives the same result,
\* and the result is Err exactly when at least one invariant alone fails.
C22_OrderIndependent ==
    (outcome.op = "validate_invariants") =>
        /\ \A order \in Permutations(1..Len(definition.invariants)) :
               FsmDefinition_validate_invariants(Reordered(definition, order))
                   = outcome.ret
        /\ outcome.ret = InvalidInput <=>
               \E i \in 1..Len(definition.invariants) :
                   FsmDefinition_validate_invariants(WithOnly(definition, i))
                       = InvalidInput

\* C22 witness: the first invariant holds, the last one fails, and the result
\* is Err although evaluation started with an invariant that holds.
C22_Witness ==
    /\ outcome.op = "validate_invariants"
    /\ Len(definition.invariants) = MaxInvariants
    /\ definition.invariants[1].kind # definition.invariants[MaxInvariants].kind
    /\ \A i \in 1..(MaxInvariants - 1) :
           FsmDefinition_validate_invariants(WithOnly(definition, i)) = Ok
    /\ FsmDefinition_validate_invariants(WithOnly(definition, MaxInvariants))
           = InvalidInput
    /\ outcome.ret = InvalidInput
    /\ outcome.evaluated = MaxInvariants

---------------------------------------------------------------------------
(* Properties of the optional fields (checked under SpecDefFields)         *)

\* C23: for any FsmDefinition that passes validate, serializing it to JSON
\* (absent defaults, empty invariants, absent guard and metadata left out) and
\* parsing it back yields a definition whose validate result is the same, Ok.
C23_RoundTripValidates ==
    (/\ outcome.op = "validate_reparsed"
     /\ FsmDefinition_validate(definition) = Ok) => outcome.ret = Ok

\* C23 witness: a valid definition without defaults and invariants, its first
\* transition without guard and metadata and its second with both, validated
\* Ok after the round trip.
C23_Witness ==
    /\ outcome.op = "validate_reparsed"
    /\ outcome.ret = Ok
    /\ definition.defaults = <<>>
    /\ definition.invariants = <<>>
    /\ Len(definition.transitions) = 2
    /\ definition.transitions[1].guard = <<>>
    /\ definition.transitions[1].metadata = <<>>
    /\ definition.transitions[2].guard = <<Quoted>>
    /\ definition.transitions[2].metadata # <<>>
    /\ "defaults" \notin DOMAIN ToJson_FsmDefinition(definition)
    /\ "invariants" \notin DOMAIN ToJson_FsmDefinition(definition)
    /\ "guard" \notin DOMAIN ToJson_FsmDefinition(definition)["transitions"][1]

\* the definition d without its guards, transition metadata and invariant
\* descriptions
Erased(d) ==
    FsmDefinition(
        d.states,
        [i \in 1..Len(d.transitions) |->
            FsmTransition(d.transitions[i].from, d.transitions[i].to,
                          d.transitions[i].action)],
        d.defaults,
        [i \in 1..Len(d.invariants) |->
            FsmInvariant(d.invariants[i].kind, d.invariants[i].states,
                         d.invariants[i].transitions)])

\* C25: guard, transition metadata and invariant description are opaque to
\* validation: two definitions that differ only in those fields get the same
\* result from validate, validate_structure and validate_invariants.
C25_OpaqueFields ==
    /\ outcome.op = "validate" =>
           outcome.ret = FsmDefinition_validate(Erased(definition))
    /\ outcome.op = "validate_structure" =>
           outcome.ret = FsmDefinition_validate_structure(Erased(definition))
    /\ outcome.op = "validate_invariants" =>
           outcome.ret = FsmDefinition_validate_invariants(Erased(definition))

\* C25 witness: a definition with a blank guard, metadata and an invariant
\* description validated Ok, as it does without them.
C25_Witness ==
    /\ outcome.op = "validate"
    /\ outcome.ret = Ok
    /\ definition.transitions[1].guard = <<Blank>>
    /\ definition.transitions[1].metadata # <<>>
    /\ definition.invariants # <<>>
    /\ definition.invariants[1].description = <<Blank>>
    /\ Erased(definition) # definition

---------------------------------------------------------------------------
(* Properties of the grant lifecycle (checked under SpecGrant)             *)

\* C27: every change of a grant's status made by approve, activate and disburse
\* is a transition that GrantStatus::validate_transition accepts
\* (Pending -> Approved, Approved -> Active, Active -> Completed), and an
\* operation that returns an error leaves the status unchanged.
C27_GrantOperationsFollowTable ==
    (call.op \in {"approve", "activate", "disburse"}) =>
        /\ grant.status # call.self =>
               /\ GrantStatus_validate_transition(call.self, grant.status) = Ok
               /\ <<call.self, grant.status>> \in
                      {<<"Pending", "Approved">>, <<"Approved", "Active">>,
                       <<"Active", "Completed">>}
        /\ call.res # Ok => grant.status = call.self

\* C27 witness: the last disbursement reached the total and completed the
\* active grant.
C27_Witness ==
    /\ call.op = "disburse"
    /\ call.self = "Active"
    /\ call.res = Ok
    /\ grant.status = "Completed"
    /\ grant.disbursed_amount = grant.total_amount
    /\ grant.total_amount > 0

---------------------------------------------------------------------------
(* Properties of an idea moved along the table (checked under SpecIdea)    *)

\* C30: in the idea table no state other than Draft can transition to Draft:
\* under any sequence of transitions each accepted by validate_transition, an
\* idea that has left Draft never returns to Draft, and Archived in particular
\* can only move to Resubmitted.
C30_NoReturnToDraft ==
    [][/\ \A self \in IdeaStates \ {"Draft"} :
              /\ ~IdeaStatus_can_transition_to(self, "Draft")
              /\ IdeaStatus_validate_transition(self, "Draft") = InvalidStateTransition
       /\ ideaStatus # "Draft" => ideaStatus' # "Draft"
       /\ ideaStatus = "Archived" => ideaStatus' \in {"Archived", "Resubmitted"}]_vars

\* C30 witness: an archived idea was asked to go back to Draft, was refused and
\* is still archived.
C30_Witness ==
    /\ call.op = "transition"
    /\ call.self = "Archived"
    /\ call.target = "Draft"
    /\ call.res = InvalidStateTransition
    /\ ideaStatus = "Archived"

---------------------------------------------------------------------------
(* The timestamps of a verified trail (checked under SpecAuditChain)       *)

\* the timestamps do not decrease along the trail
TimestampsMonotonic(trail) ==
    \A i \in 1..(Len(trail) - 1) : trail[i].timestamp <= trail[i + 1].timestamp

\* C28: verify() checks that the history only contains valid transitions and is
\* monotonically increasing: it returns Ok only when the entries' timestamps do
\* not decrease along the trail.
C28_VerifyTimestampsMonotonic ==
    (op = "verify" /\ ret = Ok) => TimestampsMonotonic(entries)

---------------------------------------------------------------------------
(* Properties of the default initial state (checked under SpecDefInitial)  *)

\* validate was called on a definition whose defaults.initialState is the
\* empty string
EmptyInitialCall ==
    /\ outcome.op = "validate"
    /\ definition.defaults # <<>>
    /\ definition.defaults[1].initial_state = <<Empty>>

\* C29 (as claimed): validate rejects with Err(InvalidInput) every definition
\* whose defaults.initialState is the empty string, whatever its state list is.
C29_EmptyInitialRejected == EmptyInitialCall => outcome.ret = InvalidInput

\* C29 (amended): validate rejects with Err(InvalidInput) every definition whose
\* defaults.initialState is the empty string, unless the empty string is one of
\* its declared states.
C29_EmptyInitialRejectedUnlessDeclared ==
    (EmptyInitialCall /\ Empty \notin Range(definition.states)) =>
        outcome.ret = InvalidInput

\* C29 witness: a definition that is valid without its defaults was rejected
\* for its empty initial state.
C29_Witness ==
    /\ EmptyInitialCall
    /\ Empty \notin Range(definition.states)
    /\ FsmDefinition_validate(FsmDefinition(definition.states,
                                            definition.transitions, <<>>,
                                            definition.invariants)) = Ok
    /\ outcome.ret = InvalidInput

---------------------------------------------------------------------------
(* Termination (checked under SpecRun)                                     *)

\* what the call in progress must return
Expected ==
    IF definition = NoDefinition
    THEN AuditTrail_verify(entries)
    ELSE FsmDefinition_validate(definition)

\* C26: validate (the structure check, every invariant and the depth-first walk
\* of forbidden_cycles) terminates on every finite definition, transition
\* graphs with cycles that do not pass through the queried state, self-loops
\* and duplicate transitions included; verify terminates on every finite trail.
\* The call returns what validate or verify returns.
C26_Terminates ==
    /\ <>(run.pc = "done")
    /\ [](run.pc = "done" => run.ret = Expected)

\* C26 witness: validate returned Ok for the start state A on a graph with a
\* duplicate transition and a self-loop away from A.
C26_Witness ==
    /\ run.pc = "done"
    /\ run.ret = Ok
    /\ definition.invariants = <<FsmInvariant("forbidden_cycles", <<StateA>>, <<>>)>>
    /\ definition.transitions = <<FsmTransition(StateA, StateB, Submit),
                                  FsmTransition(StateA, StateB, Submit),
                                  FsmTransition(StateB, StateB, Submit)>>

---------------------------------------------------------------------------
(* The error kinds of the core (checked under SpecCore)                    *)

\* C24: the core raises only two error kinds: validate, validate_structure and
\* validate_invariants return only Ok or Err(InvalidInput); validate_transition
\* of both entity kinds, AuditTrail.record and AuditTrail.verify return only Ok
\* or Err(InvalidStateTransition).
C24_TwoErrorKinds ==
    /\ outcome.op \in {"validate", "validate_structure", "validate_invariants"} =>
           outcome.ret \in {Ok, InvalidInput}
    /\ call.op = "validate_transition" => call.res \in {Ok, InvalidStateTransition}
    /\ op \in {"record", "verify"} => ret \in {Ok, InvalidStateTransition}

\* C24 witness: record refused an entry whose transition the grant table does
\* not permit, with InvalidStateTransition.
C24_Witness ==
    /\ op = "record"
    /\ GrantStatus_validate_transition(arg.from_state, arg.to_state)
           = InvalidStateTransition
    /\ ret = InvalidStateTransition
    /\ entries = prev

---------------------------------------------------------------------------
(* Properties of a grant status moved along the table (checked under       *)
(* SpecGrantWalk)                                                          *)

\* the states a grant in one of the states S can be brought to by transitions
\* that validate_transition accepts
RECURSIVE GrantReachable(_)
GrantReachable(S) ==
    LET T == S \cup {t \in GrantStates :
                        \E s \in S : GrantStatus_validate_transition(s, t) = Ok}
    IN  IF T = S THEN S ELSE GrantReachable(T)

\* the transitions out of s to another state that validate_transition accepts
GrantOutgoing(s) ==
    {t \in GrantStates \ {s} : GrantStatus_validate_transition(s, t) = Ok}

GrantClosingStates == {"Completed", "Cancelled", "Rejected", "Expired"}

\* C31: from every grant state Archived is reachable by transitions that
\* validate_transition accepts; Archived is the only state with no transition
\* to another state; an archived grant stays archived under every accepted
\* transition; and from Completed, Cancelled, Rejected and Expired nothing but
\* the state itself and Archived is reachable.
C31_ArchivedIsTheOnlySink ==
    /\ [](/\ "Archived" \in GrantReachable({grantStatus})
          /\ (GrantOutgoing(grantStatus) = {}) <=> (grantStatus = "Archived")
          /\ grantStatus \in GrantClosingStates
                => GrantReachable({grantStatus}) = {grantStatus, "Archived"})
    /\ [][/\ grantStatus = "Archived" => grantStatus' = "Archived"
          /\ grantStatus \in GrantClosingStates
                => grantStatus' \in {grantStatus, "Archived"}]_vars

\* C31 witness: an expired grant was moved to Archived, the only other state it
\* can reach.
C31_Witness ==
    /\ call.op = "transition"
    /\ call.self = "Expired"
    /\ call.target = "Archived"
    /\ call.res = Ok
    /\ grantStatus = "Archived"

---------------------------------------------------------------------------
(* Properties of verify over a growing trail (checked under SpecAuditChain) *)

\* C32: verification failure is permanent: once verify has returned Err on a
\* trail, every later verify returns Err whatever was recorded in between; and
\* when verify returns Ok on a trail, it returns Ok on every prefix of that
\* trail.
C32_VerifyFailurePermanent ==
    /\ []((op = "verify" /\ ret = InvalidStateTransition)
            => [](op = "verify" => ret = InvalidStateTransition))
    /\ []((op = "verify" /\ ret = Ok)
            => \A k \in 0..Len(entries) :
                   AuditTrail_verify(SubSeq(entries, 1, k)) = Ok)

\* C32 witness: verify fails on a trail of three entries whose first two
\* already made it fail, the third having been recorded after the break.
C32_Witness ==
    /\ op = "verify"
    /\ ret = InvalidStateTransition
    /\ Len(entries) = 3
    /\ AuditTrail_verify(SubSeq(entries, 1, 2)) = InvalidStateTransition
    /\ entries[3].grant_id # entries[2].grant_id

---------------------------------------------------------------------------
(* Properties of a verified trail (checked under SpecAuditClosing)          *)

\* entries i..j of the trail belong to one run of consecutive entries of the
\* same grant
SameRun(trail, i, j) ==
    \A k \in i..j : trail[k].grant_id = trail[i].grant_id

\* C33: in a trail built only through record on which verify returns Ok, every
\* run of consecutive entries of one grant is a walk in the grant table: each
\* entry is a table edge or a self-transition, each entry starts in the state
\* where the previous one of the run ended, and after an entry of the run that
\* ends in Archived only Archived -> Archived entries follow in the run.
C33_VerifiedRunsAreWalks ==
    (op = "verify" /\ ret = Ok /\ entries = accepted)
        => /\ \A i \in 1..Len(entries) : Permitted(entries[i])
           /\ \A i \in 1..(Len(entries) - 1) :
                  SameRun(entries, i, i + 1)
                      => entries[i + 1].from_state = entries[i].to_state
           /\ \A i \in 1..Len(entries) : \A j \in (i + 1)..Len(entries) :
                  (SameRun(entries, i, j) /\ entries[i].to_state = "Archived")
                      => /\ entries[j].from_state = "Archived"
                         /\ entries[j].to_state = "Archived"

\* C33 witness: a verified trail of grant 1 that goes Active -> Completed ->
\* Archived and then records the no-op on Archived.
C33_Witness ==
    /\ op = "verify"
    /\ ret = Ok
    /\ entries = accepted
    /\ Len(entries) = 3
    /\ SameRun(entries, 1, 3)
    /\ entries[2].to_state = "Archived"
    /\ entries[3].from_state = "Archived"
    /\ entries[3].to_state = "Archived"

---------------------------------------------------------------------------
(* Properties of invariants over undeclared labels (checked under           *)
(* SpecDefUndeclared)                                                       *)

\* the definition d with another list of declared states
WithStates(d, states) ==
    FsmDefinition(states, d.transitions, d.defaults, d.invariants)

\* the invariant names nothing but labels that d does not declare
OnlyUndeclared(d, invariant) ==
    /\ \A i \in 1..Len(invariant.states) : ~Declared(d, invariant.states[i])
    /\ \A i \in 1..Len(invariant.transitions) :
           \/ ~Declared(d, invariant.transitions[i].from)
           \/ ~Declared(d, invariant.transitions[i].to)

\* C34: an invariant is never rejected for naming a label that is not a
\* declared state: on a structurally valid definition, terminal_states,
\* forbidden_cycles and forbidden_transitions over undeclared labels succeed,
\* and the outcome of every invariant is the same under any other state list
\* with the same transitions, except for self_transitions_required with an
\* empty scope, which reads the state list.
C34_UndeclaredLabelsAccepted ==
    (outcome.op = "validate_invariants" /\ Len(definition.invariants) = 1)
        => LET invariant == definition.invariants[1] IN
           /\ (/\ StructureOk(definition)
               /\ invariant.kind \in {"terminal_states", "forbidden_cycles",
                                      "forbidden_transitions"}
               /\ OnlyUndeclared(definition, invariant))
                  => outcome.ret = Ok
           /\ ~(/\ invariant.kind = "self_transitions_required"
                /\ invariant.states = <<>>)
                  => \A states \in {<<>>, <<Draft>>, <<Archived>>, <<Review>>,
                                    <<Draft, Archived>>,
                                    <<Draft, Archived, Review>>} :
                         FsmDefinition_validate_invariants(
                             WithStates(definition, states)) = outcome.ret

\* C34 witness: on a structurally valid definition a terminal_states invariant
\* over the undeclared Review was validated and succeeded.
C34_Witness ==
    /\ outcome.op = "validate_invariants"
    /\ outcome.ret = Ok
    /\ StructureOk(definition)
    /\ definition.invariants[1].kind = "terminal_states"
    /\ definition.invariants[1].states = <<Review>>
    /\ ~Declared(definition, Review)

---------------------------------------------------------------------------
(* Properties of the proposal lifecycle (checked under SpecProposal)        *)

\* C35: executing a proposal that has already been executed fails with
\* Err(InvalidState) and leaves the proposal unchanged: its status is still
\* Executed and executed_at keeps its first value.
C35_ExecuteTwiceInvalidState ==
    [][(call'.op = "execute_with_time" /\ proposal.status = "Executed")
          => /\ call'.res = InvalidState
             /\ proposal' = proposal]_vars


\* C36: activating a Draft proposal with total_members = 0 and a positive
\* min_quorum fails with Err(InvalidInput), and activating with min_quorum = 0
\* fails with Err(InvalidInput); in both cases the proposal stays Draft with
\* submitted_at unset.
C36_ActivateZeroInvalidInput ==
    [][\A min_quorum \in 0..MaxMembers : \A total_members \in 0..MaxMembers :
       \A current_time \in 0..I64Max :
           (/\ ActivateWithTime(min_quorum, total_members, current_time)
            /\ proposal.status = "Draft"
            /\ \/ total_members = 0 /\ min_quorum > 0
               \/ min_quorum = 0)
              => /\ call'.res = InvalidInput
                 /\ proposal'.status = "Draft"
                 /\ proposal'.submitted_at = <<>>]_vars


\* the time the voting of p started: submitted_at, falling back to created_at
VotingStart(p) ==
    IF p.submitted_at = <<>> THEN p.created_at ELSE p.submitted_at[1]

\* the status the votes of p decide
VotedStatus(p) ==
    IF p.yes_votes > p.no_votes
    THEN "Passed"
    ELSE IF p.no_votes > p.yes_votes THEN "Rejected" ELSE "Tied"

\* C37: auto_transition_after_voting on an Active proposal whose voting period
\* has ended (current_time >= submitted_at + voting_duration, submitted_at
\* falling back to created_at) returns Ok(true) and moves the proposal to
\* Passed when yes_votes > no_votes, to Rejected when no_votes > yes_votes and
\* to Tied when they are equal; before the voting end (a voting end that is a
\* time), or when the proposal is not Active, it returns Ok(false) and changes
\* nothing.
C37_AutoTransitionFollowsVotes ==
    [][\A current_time \in 0..I64Max : \A overflow_checks \in BOOLEAN :
           AutoTransitionAfterVoting(current_time, overflow_checks)
              => LET voting_end ==
                         VotingStart(proposal) + proposal.voting_duration
                 IN  /\ (/\ proposal.status = "Active"
                         /\ current_time >= voting_end)
                           => /\ call'.res = OkTrue
                              /\ proposal'.status = VotedStatus(proposal)
                     /\ (\/ proposal.status # "Active"
                         \/ current_time < voting_end /\ voting_end <= I64Max)
                           => /\ call'.res = OkFalse
                              /\ proposal' = proposal]_vars


\* the status changes of a proposal
ProposalEdges ==
    {<<"Draft", "Active">>, <<"Draft", "Cancelled">>,
     <<"Active", "Passed">>, <<"Active", "Rejected">>, <<"Active", "Tied">>,
     <<"Active", "Cancelled">>,
     <<"Passed", "Executed">>,
     <<"Executed", "Archived">>, <<"Rejected", "Archived">>,
     <<"Cancelled", "Archived">>}

\* C38: under any sequence of lifecycle operations (activate, pass, reject,
\* execute, cancel, archive, check_and_auto_archive,
\* auto_transition_after_voting) the status of a proposal moves only along
\* Draft -> Active, Draft -> Cancelled, Active -> {Passed, Rejected, Tied,
\* Cancelled}, Passed -> Executed, {Executed, Rejected, Cancelled} -> Archived;
\* Archived and Tied are absorbing: no operation changes the status of an
\* archived or tied proposal.
C38_StatusMovesAlongEdges ==
    [][/\ proposal'.status # proposal.status
              => <<proposal.status, proposal'.status>> \in ProposalEdges
       /\ proposal.status \in {"Archived", "Tied"}
              => proposal'.status = proposal.status]_vars

\* C38 witness: a proposal that became Tied was asked to be archived, was
\* refused and is still Tied.
C38_Witness ==
    /\ call.op = "archive"
    /\ call.self = "Tied"
    /\ call.res = InvalidInput
    /\ proposal.status = "Tied"
    /\ proposal.last_tallied_at # <<>>

---------------------------------------------------------------------------
(* Properties of a grant's amounts (checked under SpecGrant)                *)

\* C39: for a grant created by Grant::new and driven by any sequence of
\* approve, activate and disburse calls, disbursed_amount <= total_amount
\* always holds, disbursed_amount never decreases, status Completed implies
\* disbursed_amount = total_amount, disburse succeeds only in status Active,
\* and a disburse call that returns an error (wrong status, overflow, or an
\* amount exceeding the remainder) leaves the grant unchanged.
C39_DisbursementBounded ==
    /\ [](/\ grant.disbursed_amount <= grant.total_amount
          /\ grant.status = "Completed"
                => grant.disbursed_amount = grant.total_amount
          /\ (call.op = "disburse" /\ call.res = Ok) => call.self = "Active")
    /\ [][/\ grant'.disbursed_amount >= grant.disbursed_amount
          /\ (call'.op = "disburse" /\ call'.res # Ok) => grant' = grant]_vars

\* C39 witness: an active grant that is partly disbursed refused a
\* disbursement exceeding the remainder.
C39_Witness ==
    /\ call.op = "disburse"
    /\ call.res = InvalidInput
    /\ grant.status = "Active"
    /\ grant.disbursed_amount > 0
    /\ grant.disbursed_amount < grant.total_amount

====
